---- MODULE Spec2Model ----
(***************************************************************************)
(* One conversation session of backend/main.py: the WebSocket handler      *)
(* (task "main": initialize, receive loop, cleanup), the background        *)
(* transcript listener (task "stt": run_stt_listener), the pipeline run    *)
(* both of them execute under the session's asyncio.Lock, the reply        *)
(* generation adapter's history, and the recognition service's queue.      *)
(* The two tasks are coroutines of one event loop: a step of the model is  *)
(* the code a task runs between two awaits.                                *)
(***************************************************************************)
EXTENDS Integers, Sequences, FiniteSets, TLC

(* ------------------------------ bounds -------------------------------- *)
\* recognition events the service enqueues during one session
MaxEvents == 2
\* inbound commands the receive loop takes from the transport
MaxMsgs == 2
\* audio chunks one synthesis request produces
MaxChunks == 1
\* recognition events of a voice-only session
MaxVoiceEvents == 4
\* texts the client sends in a long text-only conversation
MaxTurns == 22
\* the last run of such a conversation whose capability call may fail
MaxFailingRuns == 3
\* direct calls of the emotion mapper, one after the other
MaxMapperCalls == 3
\* commands of a text-only session in which the persona is changed
MaxConfigMsgs == 3
\* audio chunks of one synthesis, both transports together, where the order
\* of the chunks is looked at
MaxStreamChunks == 3

(* ------------------------------- text --------------------------------- *)
\* A text is a sequence of characters; a character is [c, e]: the
\* character and the number of the recognition event it came from (0 for
\* the separator the listener inserts and for text typed by the client).
Ch(c, e) == [c |-> c, e |-> e]

Tag(str, e) == [i \in 1..Len(str) |-> Ch(str[i], e)]

Plain(text) == [i \in 1..Len(text) |-> text[i].c]

IsSpace(ch) == ch.c = " "

RECURSIVE LStrip(_)
LStrip(s) == IF s = <<>> THEN <<>>
             ELSE IF IsSpace(Head(s)) THEN LStrip(Tail(s)) ELSE s

RECURSIVE RStrip(_)
RStrip(s) == IF s = <<>> THEN <<>>
             ELSE IF IsSpace(s[Len(s)]) THEN RStrip(SubSeq(s, 1, Len(s) - 1)) ELSE s

\* str.strip()
Strip(s) == RStrip(LStrip(s))

\* the transcripts Deepgram reports, as (text, is_final); never the empty
\* string, which _on_transcript drops
Transcripts == { << <<" ", "h", " ">>, TRUE >>, << <<" ">>, TRUE >>,
                 << <<"h">>, FALSE >> }

\* the transcripts of a session in which the client also sends commands:
\* final texts that are not blank (the other kinds are those of VoiceSpec)
SessionTranscripts == { << <<" ", "h", " ">>, TRUE >> }

\* the texts a client types
ClientTexts == { <<" ", "a">>, <<" ">> }

(* ------------------------------ tasks --------------------------------- *)
Tasks == {"main", "stt"}

Other(t) == IF t = "main" THEN "stt" ELSE "main"

\* positions inside _run_pipeline: the await a run is suspended in
PipelinePcs == {"p_thinking", "p_llm", "p_emotion", "p_response",
                "p_tts", "p_audio", "p_final", "p_error"}

Personas == {"case_a", "case_b"}

DEFAULT_SYSTEM_PROMPT == "default"

\* Settings.ELEVENLABS_MODEL_ID as config.py sets it when the environment
\* does not: "eleven_flash_v2_5", character by character
ELEVENLABS_MODEL_ID ==
    << "e", "l", "e", "v", "e", "n", "_", "f", "l", "a", "s", "h", "_", "v", "2",
       "_", "5" >>

max_history_length == 20

VARIABLES
    is_active,             \* ConversationSession.is_active
    stt_available,         \* ConversationSession.stt_available
    left_by,               \* which `break` left the receive loop: "none" so far,
                           \* "request" (stop, disconnect) or "exception"
    accumulated_text,      \* ConversationSession.accumulated_text
    conversation_lock,     \* ConversationSession._conversation_lock
    pc,                    \* the await each task is suspended in
    cancel_requested,      \* _stt_task.cancel() was called, CancelledError not yet raised
    cur,                   \* per task: its call of _process_conversation, if any
    event,                 \* run_stt_listener's local `event`
    connection,            \* DeepgramSTTService.connection
    is_connected,          \* DeepgramSTTService._is_connected
    transcript_queue,      \* DeepgramSTTService.transcript_queue
    conversation_history,  \* ClaudeLLMService.conversation_history
    system_prompt,         \* ClaudeLLMService.system_prompt
    api_key_valid,         \* settings.ANTHROPIC_API_KEY passes _is_api_key_valid
    tts_configured,        \* the ElevenLabs key is valid and a voice id is set
    emotion_map,           \* emotion_mapper.EMOTION_MAP, the module's dict as it is now
    mapper_calls,          \* the direct calls of get_emotion_mapping and their results
    model_id,              \* ElevenLabsTTSService.model_id (settings.ELEVENLABS_MODEL_ID)
    tagged_calls,          \* the direct calls of build_tagged_text and their results
    sent_outside,          \* the events sent to the transport outside pipeline runs, in order
    nevents,               \* recognition events enqueued so far
    nmsgs,                 \* inbound commands received so far
    nruns,                 \* calls of _process_conversation so far
    overlapped,            \* the ended runs during which a config command was handled
    listener_log,          \* the events the listener consumed and what each led to
    conversation_ended     \* supabase_service.end_conversation was called

sessionVars == << is_active, stt_available, left_by >>

sttVars == << connection, is_connected, transcript_queue, nevents >>

llmVars == << conversation_history, system_prompt >>

settingsVars == << api_key_valid, tts_configured, emotion_map, mapper_calls,
                   model_id, tagged_calls >>

vars == << is_active, stt_available, left_by, accumulated_text, conversation_lock, pc,
           cancel_requested, cur, event, connection, is_connected,
           transcript_queue, conversation_history, system_prompt, api_key_valid,
           tts_configured, emotion_map, mapper_calls, model_id, tagged_calls,
           sent_outside, nevents,
           nmsgs, nruns, overlapped, listener_log, conversation_ended >>

(* ----------------------------- messages ------------------------------- *)
\* ServerMessage(...).model_dump(exclude_none=True): absent fields are
\* left out, is_final is always there.
StatusMessage(text) == [type |-> "status", text |-> text, is_final |-> FALSE]

TranscriptMessage(text, is_final) ==
    [type |-> "transcript", text |-> Plain(text), is_final |-> is_final]

EmotionMessage(emotion, intensity) ==
    [type |-> "emotion", emotion |-> emotion, intensity |-> intensity,
     is_final |-> FALSE]

ResponseMessage(text, emotion) ==
    [type |-> "response", text |-> text, emotion |-> emotion, is_final |-> FALSE]

AudioMessage(audio_data) ==
    [type |-> "audio", audio_data |-> audio_data, is_final |-> FALSE]

\* the marker with is_final left at its default
UnmarkedAudioMessage == [type |-> "audio", is_final |-> FALSE]

AudioFinalMessage == [type |-> "audio", is_final |-> TRUE]

ErrorMessage(text) == [type |-> "error", text |-> text, is_final |-> FALSE]

\* send_message: the event goes to websocket.send_json; a failure of the
\* transport is logged and swallowed. The model keeps the events a run
\* sent with the run (cur[t].sent) and the others in sent_outside.
send_message(log, message) == Append(log, message)

(* ------------------------- reply envelopes ---------------------------- *)
EmotionType == {"neutral", "happy", "sad", "angry", "surprised", "thinking",
                "anxious", "empathetic"}

\* LLMResponse; intensity in hundredths
LLMResponse(text, emotion, intensity, voice_direction) ==
    [text |-> text, emotion |-> emotion, intensity |-> intensity,
     voice_direction |-> voice_direction]

NoResponse == LLMResponse("", "neutral", 0, "")

\* a placeholder that does not say it is one
UnlabelledReply == LLMResponse("reply", "happy", 60, "brightly")

MockResponse == LLMResponse("mock", "happy", 60, "brightly")

\* an apology that is neither neutral nor of intensity 0.3
LoudApology == LLMResponse("apology", "angry", 90, "loudly")

ApiErrorResponse == LLMResponse("apology", "neutral", 30, "calmly")

OtherErrorResponse == LLMResponse("retry_later", "neutral", 30, "calmly")

FallbackResponse(raw_text) == LLMResponse(raw_text, "neutral", 50, "")

\* what the stream of the reply-generation capability ends with: an
\* anthropic.APIError, or one of the raw outputs below
LlmOutcomes == {"record", "not_json", "not_object", "api_error",
                "empty_object", "unknown_emotion", "word_intensity",
                "large_intensity", "quoted_intensity", "null_intensity",
                "null_direction"}

\* the values json.loads produces for the fields of an object: a string
\* ("numeral" when float() accepts it), a number in hundredths, null, or
\* "missing" for an absent key
JsonValue(type, s, n) == [type |-> type, s |-> s, n |-> n]

JsonObject(text, emotion, intensity, voice_direction) ==
    [type |-> "object", text |-> text, emotion |-> emotion,
     intensity |-> intensity, voice_direction |-> voice_direction]

\* raw_text after strip() and what json.loads makes of it ("invalid": it
\* raises json.JSONDecodeError)
Output(raw_text, data) == [raw_text |-> raw_text, data |-> data]

NoOutput == Output("", [type |-> "none"])

RawOutput(outcome) ==
    LET Str(s)  == JsonValue("string", s, 0)
        Num(n)  == JsonValue("number", "", n)
        Null    == JsonValue("null", "", 0)
        Missing == JsonValue("missing", "", 0)
    IN
    CASE outcome = "record" ->
            Output("{text: reply, emotion: empathetic, intensity: 0.7, voice_direction: softly}",
                   JsonObject(Str("reply"), Str("empathetic"), Num(70),
                              Str("softly")))
      [] outcome = "not_json" ->
            Output("raw", [type |-> "invalid"])
      [] outcome = "not_object" ->
            Output("[reply, happy]", [type |-> "array"])
      [] outcome = "empty_object" ->
            Output("{}", JsonObject(Missing, Missing, Missing, Missing))
      [] outcome = "unknown_emotion" ->
            Output("{text: reply, emotion: joyful}",
                   JsonObject(Str("reply"), Str("joyful"), Missing, Missing))
      [] outcome = "word_intensity" ->
            Output("{text: reply, intensity: 'high'}",
                   JsonObject(Str("reply"), Missing, Str("high"), Missing))
      [] outcome = "large_intensity" ->
            Output("{text: reply, emotion: angry, intensity: 1.5}",
                   JsonObject(Str("reply"), Str("angry"), Num(150), Missing))
      [] outcome = "quoted_intensity" ->
            Output("{text: reply, emotion: sad, intensity: '0.9'}",
                   JsonObject(Str("reply"), Str("sad"),
                              JsonValue("numeral", "0.9", 90), Missing))
      [] outcome = "null_intensity" ->
            Output("{text: reply, emotion: happy, intensity: null}",
                   JsonObject(Str("reply"), Str("happy"), Null, Missing))
      [] outcome = "null_direction" ->
            Output("{text: reply, voice_direction: null}",
                   JsonObject(Str("reply"), Missing, Missing, Null))
      [] OTHER -> NoOutput

\* a function returned `response` (raised = "none") or raised an exception
Result(raised, response) == [raised |-> raised, response |-> response]

\* data.get(key, default)
Get(value, default) == IF value.type = "missing" THEN default ELSE value

\* float(value): "none", or the exception it raises
FloatRaises(value) ==
    CASE value.type \in {"number", "numeral"} -> "none"
      [] value.type = "string"                -> "ValueError"
      [] OTHER                                -> "TypeError"

\* an envelope constructor that validates nothing
AcceptsAll(text, intensity, voice_direction) == TRUE

\* the validation of LLMResponse(...): text and voice_direction are str,
\* 0.0 <= intensity <= 1.0; a ValidationError is a ValueError
Validates(text, intensity, voice_direction) ==
    /\ text.type \in {"string", "numeral"}
    /\ voice_direction.type \in {"string", "numeral"}
    /\ 0 <= intensity.n /\ intensity.n <= 100

\* _parse_response(raw_text), where json.loads(text) gives `data`: the
\* arguments of LLMResponse are evaluated in order, then validated;
\* json.JSONDecodeError and ValueError give the fallback envelope, any
\* other exception leaves the function
parse_response(raw_text, data) ==
    LET fallback == Result("none", FallbackResponse(raw_text)) IN
    IF data.type = "invalid" THEN fallback
    ELSE IF data.type # "object" THEN Result("AttributeError", NoResponse)
    ELSE LET text            == Get(data.text, JsonValue("string", "", 0))
             emotion         == Get(data.emotion, JsonValue("string", "neutral", 0))
             intensity       == Get(data.intensity, JsonValue("number", "", 50))
             voice_direction == Get(data.voice_direction, JsonValue("string", "", 0))
         IN  IF ~(emotion.type = "string" /\ emotion.s \in EmotionType)
             THEN fallback
             ELSE IF FloatRaises(intensity) = "ValueError"
             THEN fallback
             ELSE IF FloatRaises(intensity) # "none"
             THEN Result(FloatRaises(intensity), NoResponse)
             ELSE IF ~Validates(text, intensity, voice_direction)
             THEN fallback
             ELSE Result("none", LLMResponse(text.s, emotion.s, intensity.n,
                                             voice_direction.s))

(* -------------------------- emotion mapper ---------------------------- *)
\* EMOTION_MAP; stability, style and speed in hundredths
EmotionMapping(id, tag, stability, style, speed) ==
    [simli_emotion_id |-> id, elevenlabs_audio_tag |-> tag,
     voice_stability |-> stability, voice_style |-> style, voice_speed |-> speed]

EMOTION_MAP ==
    [e \in EmotionType |->
       CASE e = "neutral"    -> EmotionMapping("neutral", "", 50, 0, 90)
         [] e = "happy"      -> EmotionMapping("happy", "[cheerfully]", 40, 60, 95)
         [] e = "sad"        -> EmotionMapping("sad", "[sorrowful]", 30, 50, 78)
         [] e = "angry"      -> EmotionMapping("angry", "[frustrated]", 35, 70, 95)
         [] e = "surprised"  -> EmotionMapping("surprised", "[gasps]", 30, 60, 95)
         [] e = "thinking"   -> EmotionMapping("thinking", "[pauses]", 60, 20, 82)
         [] e = "anxious"    -> EmotionMapping("anxious", "[nervously]", 30, 50, 92)
         [] e = "empathetic" -> EmotionMapping("empathetic", "[calm]", 40, 40, 85)]

Min(a, b) == IF a <= b THEN a ELSE b

Max(a, b) == IF a >= b THEN a ELSE b

(* --------------------------- Python floats ---------------------------- *)
\* The mapper computes with Python floats, IEEE 754 doubles: every literal
\* and every result of + - * is the double nearest to the exact value, a tie
\* going to the even one. A double is [neg, m, e], the number
\* (-1)^neg * m * 2^e with m below 2^53 (or 2^53 itself). m is a natural
\* number written in base 2^15, lowest digit first, without leading zeros.

\* a + b, or a - b (a >= b) when sub is TRUE
BigSum(a, b, sub) ==
    LET RECURSIVE Digits(_, _, _)
        Digits(x, y, c) ==
            IF x = <<>> /\ y = <<>> THEN (IF c = 0 THEN <<>> ELSE << c >>)
            ELSE LET Step(d) ==
                         << IF d < 0 THEN d + 32768 ELSE d % 32768 >>
                         \o Digits(IF x = <<>> THEN x ELSE Tail(x),
                                   IF y = <<>> THEN y ELSE Tail(y),
                                   IF d < 0 THEN 1 ELSE d \div 32768)
                 IN  Step((IF x = <<>> THEN 0 ELSE Head(x))
                          + (IF sub THEN 0 - c ELSE c)
                          + (IF y = <<>> THEN 0
                             ELSE IF sub THEN 0 - Head(y) ELSE Head(y)))
        RECURSIVE Trim(_)
        Trim(x) == IF x # <<>> /\ x[Len(x)] = 0
                   THEN Trim(SubSeq(x, 1, Len(x) - 1)) ELSE x
    IN  Trim(Digits(a, b, 0))

\* a * b
BigProduct(a, b) ==
    LET RECURSIVE Scale(_, _, _)
        Scale(x, k, c) ==
            IF x = <<>> THEN (IF c = 0 THEN <<>> ELSE << c >>)
            ELSE << (Head(x) * k + c) % 32768 >>
                 \o Scale(Tail(x), k, (Head(x) * k + c) \div 32768)
        Shifted(x) == IF x = <<>> THEN x ELSE << 0 >> \o x
        RECURSIVE Rows(_)
        Rows(y) ==
            IF y = <<>> THEN <<>>
            ELSE BigSum(Scale(a, Head(y), 0), Shifted(Rows(Tail(y))), FALSE)
    IN  Rows(b)

\* a divided by k, 0 < k <= 2^15: the quotient q and the remainder r
BigDivMod(a, k) ==
    LET RECURSIVE Down(_, _, _)
        Down(x, rem, q) ==
            IF x = <<>> THEN [q |-> q, r |-> rem]
            ELSE Down(SubSeq(x, 1, Len(x) - 1),
                      (rem * 32768 + x[Len(x)]) % k,
                      << (rem * 32768 + x[Len(x)]) \div k >> \o q)
        Trimmed(d) == [q |-> BigSum(d.q, <<>>, FALSE), r |-> d.r]
    IN  Trimmed(Down(a, 0, <<>>))

\* a < b
BigLess(a, b) ==
    IF Len(a) # Len(b) THEN Len(a) < Len(b)
    ELSE \E i \in 1..Len(a) :
            /\ a[i] < b[i]
            /\ \A j \in (i + 1)..Len(a) : a[j] = b[j]

\* a * 2^n
BigShift(a, n) ==
    IF a = <<>> THEN a
    ELSE [i \in 1..(n \div 15) |-> 0] \o BigProduct(a, << 2 ^ (n % 15) >>)

\* a / 2^n rounded to the nearest natural number, a tie to the even one
Nearest(a, n) ==
    LET Digit(i) == IF i <= Len(a) THEN a[i] ELSE 0
        \* q is a \div 2^n; the highest bit that is cut off is the bit of
        \* value bit in the digit k
        Rounded(q, k, bit) ==
            IF /\ (Digit(k) \div bit) % 2 = 1
               /\ \/ Digit(k) % bit # 0
                  \/ \E i \in 1..(k - 1) : Digit(i) # 0
                  \/ q # <<>> /\ q[1] % 2 = 1
            THEN BigSum(q, << 1 >>, FALSE)
            ELSE q
    IN  IF n = 0 THEN a
        ELSE Rounded(BigDivMod(SubSeq(a, n \div 15 + 1, Len(a)),
                               2 ^ (n % 15)).q,
                     (n - 1) \div 15 + 1, 2 ^ ((n - 1) % 15))

\* the double nearest to (-1)^neg * m * 2^e
Double(neg, m, e) ==
    LET \* n bits of m are more than a double holds
        Rounded(n) == [neg |-> neg, m |-> Nearest(m, n), e |-> e + n]
    IN  IF m = <<>> THEN [neg |-> neg, m |-> m, e |-> e]
        ELSE Rounded(Max(0, 15 * (Len(m) - 1) - 53
                            + CHOOSE n \in 1..15 : /\ 2 ^ (n - 1) <= m[Len(m)]
                                                   /\ m[Len(m)] < 2 ^ n))

\* the float literals 0.00, 0.01 .. 1.50 (and float() of these numerals),
\* by their hundredths
Float ==
    [n \in 0..150 |->
       LET \* cut is n * 2^75 / 100; the double is rounded from twice its
           \* quotient with what is left of the division as the last bit
           Literal(cut) ==
               Double(FALSE,
                      BigSum(BigShift(cut.q, 1),
                             IF cut.r = 0 THEN <<>> ELSE << 1 >>, FALSE),
                      -76)
       IN  IF n = 0 THEN [neg |-> FALSE, m |-> <<>>, e |-> 0]
           ELSE Literal(BigDivMod(BigShift(<< n >>, 75), 100))]

\* x * y
FMul(x, y) == Double(x.neg # y.neg, BigProduct(x.m, y.m), x.e + y.e)

\* x + y
FAdd(x, y) ==
    LET \* a and b are the two numbers as multiples of 2^e
        Sum(a, b) ==
            IF x.neg = y.neg THEN [neg |-> x.neg, m |-> BigSum(a, b, FALSE)]
            ELSE IF BigLess(a, b) THEN [neg |-> y.neg, m |-> BigSum(b, a, TRUE)]
            ELSE [neg |-> x.neg, m |-> BigSum(a, b, TRUE)]
        Nearby(s, e) == Double(s.neg, s.m, e)
    IN  Nearby(Sum(BigShift(x.m, x.e - Min(x.e, y.e)),
                   BigShift(y.m, y.e - Min(x.e, y.e))),
               Min(x.e, y.e))

\* x - y
FSub(x, y) == FAdd(x, [y EXCEPT !.neg = ~@])

\* round(x, 2) for 0 <= x < 300, in hundredths: the hundredth nearest to the
\* exact value of the double, a tie to the even one
Round2(x) ==
    LET First(h) == IF h = <<>> THEN 0 ELSE h[1]
    IN  First(Nearest(BigProduct(x.m, << 100 >>), 0 - x.e))

\* a stability that is left as computed (in hundredths)
UnroundedStability(value) == Round2(value)

\* round_to_valid_stability; the argument a float, the result in hundredths
round_to_valid_stability(value) ==
    LET \* d < 0
        Negative(d) == d.neg /\ d.m # <<>>
    IN  IF Negative(FSub(value, Float[25])) THEN 0
        ELSE IF Negative(FSub(value, Float[75])) THEN 50
        ELSE 100

\* a mapper whose stability rises and whose speed returns to 1.0 as the
\* intensity grows
CalmerWithIntensity(mapping, intensity) ==
    LET raw_stability == FAdd(Float[mapping.voice_stability],
                              FMul(Float[intensity], Float[20]))
        adjusted_style == Min(10000, mapping.voice_style * 100 + intensity * 20)
        speed_deviation == FSub(Float[mapping.voice_speed], Float[100])
        adjusted_speed ==
            FAdd(Float[100],
                 FMul(speed_deviation,
                      FSub(Float[100], FMul(Float[intensity], Float[50]))))
    IN  EmotionMapping(mapping.simli_emotion_id, mapping.elevenlabs_audio_tag,
                       round_to_valid_stability(raw_stability), adjusted_style,
                       Max(70, Min(120, Round2(adjusted_speed))))

\* get_emotion_mapping after its lookup; the base values of the mapping and
\* the intensity are in hundredths, and so are the stability and the speed
\* of the result. The style is given in 1/10000: it is the float nearest to
\* that value or the one next to it.
adjusted_mapping(mapping, intensity) ==
    LET raw_stability == FSub(Float[mapping.voice_stability],
                              FMul(Float[intensity], Float[20]))
        adjusted_style == Min(10000, mapping.voice_style * 100 + intensity * 20)
        base_speed == Float[mapping.voice_speed]
        speed_deviation == FSub(base_speed, Float[100])
        adjusted_speed ==
            FAdd(Float[100],
                 FMul(speed_deviation,
                      FAdd(Float[50], FMul(Float[intensity], Float[50]))))
    IN  EmotionMapping(mapping.simli_emotion_id, mapping.elevenlabs_audio_tag,
                       round_to_valid_stability(raw_stability), adjusted_style,
                       Max(70, Min(120, Round2(adjusted_speed))))

\* adjusted_mapping for the entries of EMOTION_MAP as the module defines
\* them and the intensities 0.00, 0.01 .. 1.00, computed once
ADJUSTED ==
    [emotion \in EmotionType |->
       [intensity \in 0..100 |-> adjusted_mapping(EMOTION_MAP[emotion], intensity)]]

\* get_emotion_mapping; intensity in hundredths
get_emotion_mapping(emotion, intensity) ==
    LET mapping == IF emotion \in DOMAIN emotion_map THEN emotion_map[emotion]
                   ELSE emotion_map["neutral"]
    IN  IF emotion \in EmotionType /\ mapping = EMOTION_MAP[emotion]
           /\ intensity \in 0..100
        THEN ADJUSTED[emotion][intensity]
        ELSE adjusted_mapping(mapping, intensity)


\* VOICE_DIRECTION_TAG_MAP; the Korean hints are written as English words
\* ("brightly" is the hint of the placeholder envelope, "calmly" that of the
\* apology envelopes)
VOICE_DIRECTION_TAG_MAP ==
    [d \in {"quietly", "tearfully", "brightly", "calmly", "energetically",
            "softly", "warmly", "firmly", "tensely", "startled", "pondering",
            "worriedly", "sadly", "angrily", "gladly", "excitedly"} |->
       CASE d = "quietly"       -> "[quietly]"
         [] d = "tearfully"     -> "[tearfully]"
         [] d = "brightly"      -> "[cheerfully]"
         [] d = "calmly"        -> "[calm]"
         [] d = "energetically" -> "[energetically]"
         [] d = "softly"        -> "[softly]"
         [] d = "warmly"        -> "[warmly]"
         [] d = "firmly"        -> "[firmly]"
         [] d = "tensely"       -> "[nervously]"
         [] d = "startled"      -> "[gasps]"
         [] d = "pondering"     -> "[thoughtfully]"
         [] d = "worriedly"     -> "[worriedly]"
         [] d = "sadly"         -> "[sorrowful]"
         [] d = "angrily"       -> "[frustrated]"
         [] d = "gladly"        -> "[cheerfully]"
         [] d = "excitedly"     -> "[excited]"]

\* a build_tagged_text that adds the delivery tag whatever the tags so far
TagsRepeated(tags, mapped) == FALSE

\* `mapped not in tags`
AlreadyTagged(tags, mapped) == \E i \in 1..Len(tags) : tags[i] = mapped

\* build_tagged_text. A text is the sequence of its pieces, a space being a
\* piece of its own; the hint is a sequence of pieces too, so that strip()
\* has something to remove. None, the result of a failed lookup, is "".
build_tagged_text(text, audio_tag, voice_direction) ==
    LET emotion_tags == IF audio_tag # "" THEN << audio_tag >> ELSE <<>>
        direction == Plain(Strip(Tag(voice_direction, 0)))
        mapped == IF Len(direction) = 1 /\ direction[1] \in DOMAIN VOICE_DIRECTION_TAG_MAP
                  THEN VOICE_DIRECTION_TAG_MAP[direction[1]]
                  ELSE ""
        tags == IF voice_direction # <<>> /\ mapped # ""
                   /\ ~AlreadyTagged(emotion_tags, mapped)
                THEN Append(emotion_tags, mapped)
                ELSE emotion_tags
        \* " ".join(tags)
        prefix == [i \in 1..(IF tags = <<>> THEN 0 ELSE 2 * Len(tags) - 1) |->
                     IF i % 2 = 1 THEN tags[(i + 1) \div 2] ELSE " "]
    IN  IF prefix # <<>> THEN prefix \o << " " >> \o text ELSE text

\* a mapper that writes the stability it computed into the entry it read
StoresStability(table, emotion, result) ==
    [table EXCEPT ![emotion].voice_stability = result.voice_stability]

\* EMOTION_MAP after a call: the result is a new EmotionMapping and nothing
\* is assigned to the entry read
TableAfterCall(table, emotion, result) == table

(* ---------------------------- asyncio.Lock ---------------------------- *)
\* the lock's flag and its queue of waiting futures, each [task, state]
\* with state "pending", "done" (woken) or "cancelled"
NewLock == [locked |-> FALSE, waiters |-> <<>>]

\* an acquire that never waits
NeverBlocks(lock) == TRUE

\* an acquire that looks at the flag and not at the queue
IgnoresWaiters(lock) == ~lock.locked

\* Lock.acquire, fast path: free, and nobody is queued ahead
CanAcquireNow(lock) ==
    /\ ~lock.locked
    /\ \A i \in 1..Len(lock.waiters) : lock.waiters[i].state = "cancelled"

\* Lock._wake_up_first: the first waiter's future gets its result
wake_up_first(lock) ==
    IF lock.waiters # <<>> /\ lock.waiters[1].state = "pending"
    THEN [lock EXCEPT !.waiters[1].state = "done"]
    ELSE lock

\* Lock.release
release(lock) == wake_up_first([lock EXCEPT !.locked = FALSE])

\* Lock.acquire, slow path: a future is queued and awaited
Enqueue(lock, t) ==
    [lock EXCEPT !.waiters = Append(@, [task |-> t, state |-> "pending"])]

Without(waiters, t) == SelectSeq(waiters, LAMBDA w : w.task # t)

\* Lock.acquire, a woken waiter resumes: it leaves the queue and locks
acquire_woken(lock, t) == [locked |-> TRUE, waiters |-> Without(lock.waiters, t)]

\* Lock.acquire, CancelledError at `await fut`
acquire_cancelled(lock, t) ==
    LET left == [lock EXCEPT !.waiters = Without(@, t)]
    IN  IF ~left.locked THEN wake_up_first(left) ELSE left

\* Task.cancel on a task waiting for the lock: its pending future is cancelled
cancel_waiter(lock, t) ==
    [lock EXCEPT !.waiters =
        [i \in 1..Len(@) |->
            IF @[i].task = t /\ @[i].state = "pending"
            THEN [@[i] EXCEPT !.state = "cancelled"] ELSE @[i]]]

IsWoken(lock, t) ==
    \E i \in 1..Len(lock.waiters) :
        lock.waiters[i].task = t /\ lock.waiters[i].state = "done"

(* ------------------------- records of a call -------------------------- *)
\* one call of _process_conversation: the locals of _run_pipeline, the
\* raw output the reply stream of generate_response ended with, the
\* events the run has sent so far, and what was in effect when the run
\* started and when it called the reply-generation capability
Call(run, user_text) ==
    [run |-> run, user_text |-> user_text, output |-> NoOutput,
     llm_response |-> NoResponse,
     audio_chunk_count |-> 0, transport |-> "none", produced |-> 0,
     \* what synthesize_speech_streaming asks the transports for (none yet)
     request |-> [text |-> <<>>, stability |-> 0, style |-> 0, speed |-> 0],
     sent |-> <<>>,
     start_prompt |-> "", start_history |-> <<>>,
     used_prompt |-> "", used_history |-> <<>>, reconfigured |-> FALSE]

NoCall == Call(0, <<>>)

NoEvent == [type |-> "none", text |-> <<>>, is_final |-> FALSE]

Turn(role, content, run) == [role |-> role, content |-> content, run |-> run]

\* a truncation that keeps the oldest turns
KeepOldest(history) ==
    IF Len(history) > max_history_length
    THEN SubSeq(history, 1, max_history_length)
    ELSE history

\* conversation_history[-max_history_length:]
Truncate(history) ==
    IF Len(history) > max_history_length
    THEN SubSeq(history, Len(history) - max_history_length + 1, Len(history))
    ELSE history

\* load_case_profile / load_profile: a known case replaces the directive
LoadProfile(prompt, case_id) == IF case_id \in Personas THEN case_id ELSE prompt

InPipeline(t) == pc[t] \in PipelinePcs

\* where a task goes when its _process_conversation call returns: the receive
\* loop to its next receive_json, the listener to get_transcripts' loop test
AfterCall(t) == IF t = "main" THEN "recv"
                ELSE IF is_connected THEN "get" ELSE "done"

\* a cancellation that stops nothing
AlwaysRunnable(t) == TRUE

\* a cancelled task runs nothing but the delivery of its CancelledError
Runnable(t) == t = "stt" => ~cancel_requested

\* a cleanup that finds no listener task to cancel
NeverAlive == FALSE

\* `self._stt_task and not self._stt_task.done()`
ListenerAlive == pc["stt"] \notin {"none", "done"}

(* ------------------------------- Init --------------------------------- *)
\* ConversationSession.__init__ and the services' constructors; the
\* credentials are settings of the process and do not change.
Init ==
    /\ is_active = FALSE
    /\ stt_available = FALSE
    /\ left_by = "none"
    /\ accumulated_text = <<>>
    /\ conversation_lock = NewLock
    /\ pc = [t \in Tasks |-> IF t = "main" THEN "init" ELSE "none"]
    /\ cancel_requested = FALSE
    /\ cur = [t \in Tasks |-> NoCall]
    /\ event = NoEvent
    /\ connection = "none"
    /\ is_connected = FALSE
    /\ transcript_queue = <<>>
    /\ conversation_history = <<>>
    /\ system_prompt = DEFAULT_SYSTEM_PROMPT
    /\ api_key_valid \in BOOLEAN
    /\ tts_configured \in BOOLEAN
    /\ emotion_map = EMOTION_MAP
    /\ mapper_calls = <<>>
    /\ model_id = ELEVENLABS_MODEL_ID
    /\ tagged_calls = <<>>
    /\ sent_outside = <<>>
    /\ nevents = 0
    /\ nmsgs = 0
    /\ nruns = 0
    /\ overlapped = {}
    /\ listener_log = <<>>
    /\ conversation_ended = FALSE

(* ----------------------- _process_conversation ------------------------ *)
\* _run_pipeline up to its first await: the user turn is stored and
\* status(thinking) goes out
BeginRun(call) ==
    [call EXCEPT !.start_prompt = system_prompt,
                 !.start_history = conversation_history,
                 !.sent = send_message(@, StatusMessage("thinking"))]

\* task t calls _process_conversation(user_text): `async with` takes the
\* lock at once when it can, and otherwise the call waits in the queue
ProcessConversation(t, user_text) ==
    LET r == nruns + 1 IN
    /\ nruns' = r
    /\ IF CanAcquireNow(conversation_lock)
       THEN /\ conversation_lock' = [conversation_lock EXCEPT !.locked = TRUE]
            /\ cur' = [cur EXCEPT ![t] = BeginRun(Call(r, user_text))]
            /\ pc' = [pc EXCEPT ![t] = "p_thinking"]
       ELSE /\ conversation_lock' = Enqueue(conversation_lock, t)
            /\ cur' = [cur EXCEPT ![t] = Call(r, user_text)]
            /\ pc' = [pc EXCEPT ![t] = "lock"]

\* a waiting call is woken by release: it takes the lock and starts its run
LockAcquired(t) ==
    /\ pc[t] = "lock"
    /\ Runnable(t)
    /\ IsWoken(conversation_lock, t)
    /\ conversation_lock' = acquire_woken(conversation_lock, t)
    /\ cur' = [cur EXCEPT ![t] = BeginRun(@)]
    /\ pc' = [pc EXCEPT ![t] = "p_thinking"]
    /\ UNCHANGED << sessionVars, sttVars, llmVars, settingsVars, accumulated_text,
                    cancel_requested, event, sent_outside, nmsgs, nruns,
                    overlapped, listener_log, conversation_ended >>

\* the end of `async with`: the lock is released and the call returns
EndRun(t) ==
    /\ conversation_lock' = release(conversation_lock)
    /\ overlapped' = IF cur[t].reconfigured THEN overlapped \cup {cur[t].run}
                     ELSE overlapped
    /\ cur' = [cur EXCEPT ![t] = NoCall]
    /\ pc' = [pc EXCEPT ![t] = AfterCall(t)]

(* --------------------------- _run_pipeline ---------------------------- *)
\* the run of task t sends an event and is suspended at `at`
Send(t, message, at) ==
    /\ cur' = [cur EXCEPT ![t].sent = send_message(@, message)]
    /\ pc' = [pc EXCEPT ![t] = at]

\* the emotion event of a reply: the mapper's simli_emotion_id and the
\* reply's intensity
EmotionEvent(response) ==
    EmotionMessage(get_emotion_mapping(response.emotion,
                                       response.intensity).simli_emotion_id,
                   response.intensity)

\* a response event that does not carry the reply's emotion
NeutralResponseEvent(response) == ResponseMessage(response.text, "neutral")

\* the response event of a reply
ResponseEvent(response) == ResponseMessage(response.text, response.emotion)

\* generate_response returned `response`: the mapper, then the emotion event
EmitEmotion(t, response, call) ==
    /\ cur' = [cur EXCEPT ![t] =
                  [call EXCEPT !.llm_response = response,
                               !.sent = send_message(@, EmotionEvent(response))]]
    /\ pc' = [pc EXCEPT ![t] = "p_emotion"]

\* after status(thinking): generate_response up to its await on the stream,
\* or through its return when no valid key is configured
CallGenerate(t) ==
    /\ pc[t] = "p_thinking"
    /\ Runnable(t)
    /\ IF ~api_key_valid
       THEN /\ EmitEmotion(t, MockResponse, cur[t])
            /\ UNCHANGED conversation_history
       ELSE LET history == Truncate(Append(conversation_history,
                                 Turn("user", cur[t].user_text, cur[t].run)))
            IN  /\ conversation_history' = history
                /\ cur' = [cur EXCEPT ![t].used_prompt = system_prompt,
                                      ![t].used_history = history]
                /\ pc' = [pc EXCEPT ![t] = "p_llm"]
    /\ UNCHANGED << sessionVars, sttVars, settingsVars, accumulated_text,
                    conversation_lock, cancel_requested, event, system_prompt,
                    sent_outside, nmsgs, nruns, overlapped, listener_log,
                    conversation_ended >>

\* generate_response from the end of the stream to its return
ResponseOf(outcome) ==
    IF outcome = "api_error" THEN ApiErrorResponse
    ELSE LET parsed == parse_response(RawOutput(outcome).raw_text,
                                      RawOutput(outcome).data)
         IN  IF parsed.raised = "none" THEN parsed.response
             ELSE OtherErrorResponse

\* the history after the stream ended: the assistant turn is appended when
\* _parse_response returned, not when the call or the parse raised
HistoryAfter(history, outcome, run) ==
    IF /\ outcome # "api_error"
       /\ parse_response(RawOutput(outcome).raw_text,
                         RawOutput(outcome).data).raised = "none"
    THEN Append(history, Turn("assistant", ResponseOf(outcome).text, run))
    ELSE history

\* the stream ends: parse, history, then the mapper and the emotion event
StreamEnds(t, outcome) ==
    /\ pc[t] = "p_llm"
    /\ Runnable(t)
    /\ conversation_history' = HistoryAfter(conversation_history, outcome, cur[t].run)
    /\ EmitEmotion(t, ResponseOf(outcome),
                   [cur[t] EXCEPT !.output = RawOutput(outcome)])
    /\ UNCHANGED << sessionVars, sttVars, settingsVars, accumulated_text,
                    conversation_lock, cancel_requested, event, system_prompt,
                    sent_outside, nmsgs, nruns, overlapped, listener_log,
                    conversation_ended >>

\* after the emotion event: the response event
SendResponse(t) ==
    /\ pc[t] = "p_emotion"
    /\ Runnable(t)
    /\ Send(t, ResponseEvent(cur[t].llm_response), "p_response")
    /\ UNCHANGED << sessionVars, sttVars, llmVars, settingsVars, accumulated_text,
                    conversation_lock, cancel_requested, event, sent_outside,
                    nmsgs, nruns, overlapped, listener_log, conversation_ended >>

\* _supports_audio_tags: model_id.startswith("eleven_v3")
supports_audio_tags(id) ==
    LET prefix == << "e", "l", "e", "v", "e", "n", "_", "v", "3" >>
    IN  Len(id) >= Len(prefix) /\ SubSeq(id, 1, Len(prefix)) = prefix

\* a request that carries the reply text without tags whatever the model
PlainRequest(id, response, emotion_mapping) ==
    [text |-> << response.text >>,
     stability |-> emotion_mapping.voice_stability,
     style |-> emotion_mapping.voice_style,
     speed |-> emotion_mapping.voice_speed]

\* synthesize_speech_streaming up to its transports: the text, tagged when
\* the model supports audio tags, and the voice settings of the mapping.
\* The envelope's text is one piece, its hint one piece or none.
synthesis_request(id, response, emotion_mapping) ==
    LET text == << response.text >>
        voice_direction == IF response.voice_direction = "" THEN <<>>
                           ELSE << response.voice_direction >>
    IN  [text |-> IF supports_audio_tags(id)
                  THEN build_tagged_text(text, emotion_mapping.elevenlabs_audio_tag,
                                         voice_direction)
                  ELSE text,
         stability |-> emotion_mapping.voice_stability,
         style |-> emotion_mapping.voice_style,
         speed |-> emotion_mapping.voice_speed]

\* after the response event: synthesize_speech_streaming is started. With
\* no key or no voice the generator ends at once and the end-of-audio marker
\* is sent; otherwise the request is built and the WebSocket transport is
\* tried first.
StartSynthesis(t) ==
    /\ pc[t] = "p_response"
    /\ Runnable(t)
    /\ IF ~tts_configured
       THEN Send(t, AudioFinalMessage, "p_final")
       ELSE /\ cur' = [cur EXCEPT
                         ![t].transport = "ws",
                         ![t].request =
                            synthesis_request(
                               model_id, cur[t].llm_response,
                               get_emotion_mapping(cur[t].llm_response.emotion,
                                                   cur[t].llm_response.intensity))]
            /\ pc' = [pc EXCEPT ![t] = "p_tts"]
    /\ UNCHANGED << sessionVars, sttVars, llmVars, settingsVars, accumulated_text,
                    conversation_lock, cancel_requested, event, sent_outside,
                    nmsgs, nruns, overlapped, listener_log, conversation_ended >>

\* base64.b64encode(audio_chunk)
B64(chunk) == [b64 |-> chunk]

\* a chunk that synthesize_speech_streaming yields but the loop does not
\* forward
ChunkWithheld(t, limit) ==
    /\ pc[t] = "p_tts"
    /\ Runnable(t)
    /\ cur[t].produced < limit
    /\ cur' = [cur EXCEPT ![t].produced = @ + 1]
    /\ UNCHANGED << sessionVars, sttVars, llmVars, settingsVars, accumulated_text,
                    conversation_lock, pc, cancel_requested, event, sent_outside,
                    nmsgs, nruns, overlapped, listener_log, conversation_ended >>

\* the synthesis transport yields a chunk, one of at most `limit` of the
\* run: it is forwarded at once
ChunkArrivesWithin(t, limit) ==
    /\ pc[t] = "p_tts"
    /\ Runnable(t)
    /\ cur[t].produced < limit
    /\ LET chunk == [transport |-> cur[t].transport, n |-> cur[t].produced + 1]
       IN  cur' = [cur EXCEPT ![t].produced = @ + 1,
                              ![t].sent = send_message(@, AudioMessage(B64(chunk)))]
    /\ pc' = [pc EXCEPT ![t] = "p_audio"]
    /\ UNCHANGED << sessionVars, sttVars, llmVars, settingsVars, accumulated_text,
                    conversation_lock, cancel_requested, event, sent_outside,
                    nmsgs, nruns, overlapped, listener_log, conversation_ended >>

\* a chunk of a session whose runs yield at most MaxChunks chunks
ChunkArrives(t) == ChunkArrivesWithin(t, MaxChunks)

\* after an audio event: the count goes up and the next chunk is awaited
NextChunk(t) ==
    /\ pc[t] = "p_audio"
    /\ Runnable(t)
    /\ cur' = [cur EXCEPT ![t].audio_chunk_count = @ + 1]
    /\ pc' = [pc EXCEPT ![t] = "p_tts"]
    /\ UNCHANGED << sessionVars, sttVars, llmVars, settingsVars, accumulated_text,
                    conversation_lock, cancel_requested, event, sent_outside,
                    nmsgs, nruns, overlapped, listener_log, conversation_ended >>

\* a failure of the WebSocket transport that is not retried: it reaches
\* _run_pipeline, which sends the error event
NoFallback(t) ==
    /\ pc[t] = "p_tts"
    /\ Runnable(t)
    /\ cur[t].transport = "ws"
    /\ Send(t, ErrorMessage("exception"), "p_error")
    /\ UNCHANGED << sessionVars, sttVars, llmVars, settingsVars, accumulated_text,
                    conversation_lock, cancel_requested, event, sent_outside,
                    nmsgs, nruns, overlapped, listener_log, conversation_ended >>

\* the WebSocket transport raises: synthesize_speech_streaming goes on with
\* the HTTP transport
WsFails(t) ==
    /\ pc[t] = "p_tts"
    /\ Runnable(t)
    /\ cur[t].transport = "ws"
    /\ cur' = [cur EXCEPT ![t].transport = "http"]
    /\ UNCHANGED << sessionVars, sttVars, llmVars, settingsVars, accumulated_text,
                    conversation_lock, pc, cancel_requested, event, sent_outside,
                    nmsgs, nruns, overlapped, listener_log, conversation_ended >>

\* the generator is exhausted (isFinal on the WebSocket; the end of the HTTP
\* body, a status other than 200 or an error there): the marker is sent
SynthesisEnds(t) ==
    /\ pc[t] = "p_tts"
    /\ Runnable(t)
    /\ Send(t, AudioFinalMessage, "p_final")
    /\ UNCHANGED << sessionVars, sttVars, llmVars, settingsVars, accumulated_text,
                    conversation_lock, cancel_requested, event, sent_outside,
                    nmsgs, nruns, overlapped, listener_log, conversation_ended >>

\* after the marker: the assistant turn is stored, the run is over
RunCompletes(t) ==
    /\ pc[t] = "p_final"
    /\ Runnable(t)
    /\ EndRun(t)
    /\ UNCHANGED << sessionVars, sttVars, llmVars, settingsVars, accumulated_text,
                    cancel_requested, event, sent_outside, nmsgs, nruns,
                    listener_log, conversation_ended >>

\* `except Exception` of _run_pipeline: an exception escapes a step of the
\* try block while the run awaits a collaborator; the error event is sent
StepRaises(t) ==
    /\ pc[t] \in {"p_llm", "p_tts"}
    /\ Runnable(t)
    /\ Send(t, ErrorMessage("exception"), "p_error")
    /\ UNCHANGED << sessionVars, sttVars, llmVars, settingsVars, accumulated_text,
                    conversation_lock, cancel_requested, event, sent_outside,
                    nmsgs, nruns, overlapped, listener_log, conversation_ended >>

\* an error path that returns without releasing the lock
ReturnsLocked(t) ==
    /\ pc[t] = "p_error"
    /\ Runnable(t)
    /\ cur' = [cur EXCEPT ![t] = NoCall]
    /\ pc' = [pc EXCEPT ![t] = AfterCall(t)]
    /\ UNCHANGED << sessionVars, sttVars, llmVars, settingsVars, accumulated_text,
                    cancel_requested, event, sent_outside, nmsgs, nruns,
                    listener_log, conversation_ended, conversation_lock,
                    overlapped >>

\* after the error event: the run is over
RunFails(t) ==
    /\ pc[t] = "p_error"
    /\ Runnable(t)
    /\ EndRun(t)
    /\ UNCHANGED << sessionVars, sttVars, llmVars, settingsVars, accumulated_text,
                    cancel_requested, event, sent_outside, nmsgs, nruns,
                    listener_log, conversation_ended >>

(* -------------------- websocket_conversation (main) ------------------- *)
\* DeepgramSTTService.connect: what it returns and the connection it leaves
ConnectOutcomes == {"ok", "no_key", "start_failed"}

ConnectionAfter(outcome) ==
    CASE outcome = "ok"           -> "open"
      [] outcome = "no_key"       -> "none"
      [] outcome = "start_failed" -> "unstarted"

\* session.initialize, the creation of the listener task and the
\* status(connected) event
Initialize(case_id, outcome) ==
    /\ pc["main"] = "init"
    /\ system_prompt' = LoadProfile(system_prompt, case_id)
    /\ connection' = ConnectionAfter(outcome)
    /\ is_connected' = (outcome = "ok")
    /\ stt_available' = (outcome = "ok")
    /\ is_active' = TRUE
    /\ pc' = [main |-> "m_connected", stt |-> IF outcome = "ok" THEN "get" ELSE "none"]
    /\ sent_outside' = send_message(sent_outside, StatusMessage("connected"))
    /\ UNCHANGED << settingsVars, left_by, accumulated_text, conversation_lock,
                    cancel_requested, cur, event, transcript_queue, nevents,
                    conversation_history, nmsgs, nruns, overlapped, listener_log,
                    conversation_ended >>

\* a handler that enters the receive loop without announcing text-only mode
EnterLoopSilently ==
    /\ pc["main"] = "m_connected"
    /\ pc' = [pc EXCEPT !["main"] = "recv"]
    /\ UNCHANGED << sessionVars, sttVars, llmVars, settingsVars, accumulated_text,
                    conversation_lock, cancel_requested, cur, event, nmsgs, nruns,
                    overlapped, listener_log, conversation_ended, sent_outside >>

\* after status(connected): status(stt_unavailable) in text-only mode, then
\* the receive loop
EnterLoop ==
    /\ pc["main"] = "m_connected"
    /\ sent_outside' =
          IF stt_available THEN sent_outside
          ELSE send_message(sent_outside, StatusMessage("stt_unavailable"))
    /\ pc' = [pc EXCEPT !["main"] = "recv"]
    /\ UNCHANGED << sessionVars, sttVars, llmVars, settingsVars, accumulated_text,
                    conversation_lock, cancel_requested, cur, event, nmsgs, nruns,
                    overlapped, listener_log, conversation_ended >>

\* a receive loop that takes the next command while its own call of
\* _process_conversation has not returned
ReceivesDuringRun == is_active /\ pc["main"] \in {"recv", "lock"} \cup PipelinePcs

\* `while session.is_active: data = await websocket.receive_json()`
CanReceive ==
    /\ pc["main"] = "recv"
    /\ is_active

\* {"type": "audio"}: process_audio and DeepgramSTTService.send_audio; a
\* failing send marks the service disconnected
ReceiveAudio(data, send_ok) ==
    /\ CanReceive
    /\ nmsgs' = nmsgs + 1
    /\ is_connected' =
          IF stt_available /\ data # "" /\ connection # "none" /\ is_connected
          THEN send_ok ELSE is_connected
    /\ UNCHANGED << sessionVars, llmVars, settingsVars, accumulated_text,
                    conversation_lock, pc, cancel_requested, cur, event,
                    connection, transcript_queue, nevents, sent_outside, nruns,
                    overlapped, listener_log, conversation_ended >>

\* a text branch that starts a run for every text
RunsEveryText(text) ==
    /\ CanReceive
    /\ nmsgs' = nmsgs + 1
    /\ ProcessConversation("main", Strip(Tag(text, 0)))
    /\ UNCHANGED << sessionVars, sttVars, llmVars, settingsVars, accumulated_text,
                    cancel_requested, event, sent_outside, overlapped,
                    listener_log, conversation_ended >>

\* {"type": "text"}: a text that is not blank starts a run
ReceiveText(text) ==
    /\ CanReceive
    /\ nmsgs' = nmsgs + 1
    /\ IF Strip(Tag(text, 0)) # <<>>
       THEN ProcessConversation("main", Strip(Tag(text, 0)))
       ELSE UNCHANGED << conversation_lock, pc, cur, nruns >>
    /\ UNCHANGED << sessionVars, sttVars, llmVars, settingsVars, accumulated_text,
                    cancel_requested, event, sent_outside, overlapped,
                    listener_log, conversation_ended >>

\* a clear_history that clears nothing
KeepsHistory(history) == history

\* clear_history
clear_history(history) == <<>>

\* {"type": "config"}: the profile is loaded, the history cleared and
\* status(profile_changed) sent
ReceiveConfig(case_id) ==
    /\ CanReceive
    /\ nmsgs' = nmsgs + 1
    /\ system_prompt' = LoadProfile(system_prompt, case_id)
    /\ conversation_history' = clear_history(conversation_history)
    /\ sent_outside' = send_message(sent_outside, StatusMessage("profile_changed"))
    /\ cur' = [t \in Tasks |->
                 IF InPipeline(t) THEN [cur[t] EXCEPT !.reconfigured = TRUE]
                 ELSE cur[t]]
    /\ UNCHANGED << sessionVars, sttVars, settingsVars, accumulated_text,
                    conversation_lock, pc, cancel_requested, event, nruns,
                    overlapped, listener_log, conversation_ended >>

\* a message of another type, or text that is not JSON: the loop goes on
ReceiveIgnored ==
    /\ CanReceive
    /\ nmsgs' = nmsgs + 1
    /\ UNCHANGED << sessionVars, sttVars, llmVars, settingsVars, accumulated_text,
                    conversation_lock, pc, cancel_requested, cur, event,
                    sent_outside, nruns, overlapped, listener_log,
                    conversation_ended >>

\* the receive loop is left and the `finally` runs cleanup up to its await
\* on connection.finish(): the session is inactive, the listener task is
\* cancelled and the recognition service marked disconnected
LeaveLoop(how) ==
    /\ CanReceive
    /\ left_by' = how
    /\ is_active' = FALSE
    /\ cancel_requested' = ListenerAlive
    /\ conversation_lock' = IF ListenerAlive
                            THEN cancel_waiter(conversation_lock, "stt")
                            ELSE conversation_lock
    /\ is_connected' = FALSE
    /\ IF connection # "none"
       THEN /\ pc' = [pc EXCEPT !["main"] = "m_finish"]
            /\ UNCHANGED conversation_ended
       ELSE /\ pc' = [pc EXCEPT !["main"] = "done"]
            /\ conversation_ended' = TRUE
    /\ UNCHANGED << llmVars, settingsVars, stt_available, accumulated_text, cur,
                    event, connection, transcript_queue, nevents, sent_outside,
                    nmsgs, nruns, overlapped, listener_log >>

\* {"type": "stop"}: `break`
ReceiveStop == LeaveLoop("request")

\* receive_json raises WebSocketDisconnect: `break`
ReceiveDisconnect == LeaveLoop("request")

\* a frame whose JSON is not an object (data.get raises AttributeError), a
\* "text" command whose text is not a string (.strip raises), a binary
\* frame (receive_json raises KeyError): `except Exception: break`
ReceiveMalformed == LeaveLoop("exception")

\* a cleanup that returns without closing the conversation record
CleanupLeavesRecordOpen ==
    /\ pc["main"] = "m_finish"
    /\ connection' = "none"
    /\ pc' = [pc EXCEPT !["main"] = "done"]
    /\ UNCHANGED << sessionVars, llmVars, settingsVars, accumulated_text,
                    conversation_lock, cancel_requested, cur, event, is_connected,
                    transcript_queue, nevents, sent_outside, nmsgs, nruns,
                    overlapped, listener_log, conversation_ended >>

\* cleanup after connection.finish(): the connection is dropped and the
\* conversation record closed
CleanupEnds ==
    /\ pc["main"] = "m_finish"
    /\ connection' = "none"
    /\ conversation_ended' = TRUE
    /\ pc' = [pc EXCEPT !["main"] = "done"]
    /\ UNCHANGED << sessionVars, llmVars, settingsVars, accumulated_text,
                    conversation_lock, cancel_requested, cur, event, is_connected,
                    transcript_queue, nevents, sent_outside, nmsgs, nruns,
                    overlapped, listener_log >>

(* ----------------------- DeepgramSTTService --------------------------- *)
TranscriptEvent(text, is_final) ==
    [type |-> "transcript", text |-> text, is_final |-> is_final]

UtteranceEndEvent == [type |-> "utterance_end", text |-> <<>>, is_final |-> TRUE]

\* the service's callbacks run while the connection is open
CanEnqueue == connection = "open"

\* _on_transcript: the service reports a transcript
OnTranscript(text, is_final) ==
    /\ CanEnqueue
    /\ nevents' = nevents + 1
    /\ transcript_queue' =
          Append(transcript_queue, TranscriptEvent(Tag(text, nevents + 1), is_final))
    /\ UNCHANGED << sessionVars, llmVars, settingsVars, accumulated_text,
                    conversation_lock, pc, cancel_requested, cur, event,
                    connection, is_connected, sent_outside, nmsgs, nruns,
                    overlapped, listener_log, conversation_ended >>

\* _on_utterance_end: the service reports an utterance boundary
OnUtteranceEnd ==
    /\ CanEnqueue
    /\ nevents' = nevents + 1
    /\ transcript_queue' = Append(transcript_queue, UtteranceEndEvent)
    /\ UNCHANGED << sessionVars, llmVars, settingsVars, accumulated_text,
                    conversation_lock, pc, cancel_requested, cur, event,
                    connection, is_connected, sent_outside, nmsgs, nruns,
                    overlapped, listener_log, conversation_ended >>

\* _on_close: the service closed the connection
OnClose ==
    /\ connection = "open"
    /\ connection' = "closed"
    /\ is_connected' = FALSE
    /\ UNCHANGED << sessionVars, llmVars, settingsVars, accumulated_text,
                    conversation_lock, pc, cancel_requested, cur, event,
                    transcript_queue, nevents, sent_outside, nmsgs, nruns,
                    overlapped, listener_log, conversation_ended >>

(* -------------------------- run_stt_listener -------------------------- *)
\* an accumulation that does not trim the transcript
AccumulateUntrimmed(buffer, text) == buffer \o << Ch(" ", 0) >> \o text

\* accumulated_text += " " + text.strip()
Accumulate(buffer, text) == buffer \o << Ch(" ", 0) >> \o Strip(text)

\* a hand-off that leaves the buffer as it was
KeepBuffer(buffer) == buffer

\* accumulated_text after its content was handed to the pipeline
AfterHandOff(buffer) == <<>>

LogEntry(ev, handed, user_text) ==
    [event |-> ev, handed |-> handed, user_text |-> user_text]

\* get_transcripts yields the next event; the loop body runs to its next await.
\* A cancellation that reaches wait_for when queue.get() has already returned
\* is either raised (ListenerCancelled) or, with the wait_for of CPython
\* before 3.12, swallowed: the event is yielded and the loop body finds the
\* session inactive.
ListenerGets ==
    /\ pc["stt"] = "get"
    /\ transcript_queue # <<>>
    /\ cancel_requested' = FALSE
    /\ LET ev == Head(transcript_queue)
           user_text == Strip(accumulated_text)
       IN  /\ transcript_queue' = Tail(transcript_queue)
           /\ IF ~is_active
              THEN /\ pc' = [pc EXCEPT !["stt"] = "done"]
                   /\ UNCHANGED << accumulated_text, conversation_lock, cur, event,
                                   sent_outside, nruns, listener_log >>
              ELSE IF ev.type = "transcript"
              THEN /\ sent_outside' = send_message(sent_outside,
                                         TranscriptMessage(ev.text, ev.is_final))
                   /\ event' = ev
                   /\ pc' = [pc EXCEPT !["stt"] = "t_sent"]
                   /\ listener_log' = Append(listener_log, LogEntry(ev, FALSE, <<>>))
                   /\ UNCHANGED << accumulated_text, conversation_lock, cur, nruns >>
              ELSE IF user_text # <<>>
              THEN /\ accumulated_text' = AfterHandOff(accumulated_text)
                   /\ ProcessConversation("stt", user_text)
                   /\ listener_log' = Append(listener_log, LogEntry(ev, TRUE, user_text))
                   /\ UNCHANGED << event, sent_outside >>
              ELSE /\ pc' = [pc EXCEPT !["stt"] = AfterCall("stt")]
                   /\ listener_log' = Append(listener_log, LogEntry(ev, FALSE, <<>>))
                   /\ UNCHANGED << accumulated_text, conversation_lock, cur, event,
                                   sent_outside, nruns >>
    /\ UNCHANGED << sessionVars, llmVars, settingsVars, connection,
                    is_connected, nevents, nmsgs, overlapped, conversation_ended >>

\* a listener that adds every transcript that is not blank to the buffer
AccumulatesEveryTranscript ==
    /\ pc["stt"] = "t_sent"
    /\ ~cancel_requested
    /\ accumulated_text' =
          IF Strip(event.text) # <<>>
          THEN Accumulate(accumulated_text, event.text)
          ELSE accumulated_text
    /\ event' = NoEvent
    /\ pc' = [pc EXCEPT !["stt"] = AfterCall("stt")]
    /\ UNCHANGED << sessionVars, sttVars, llmVars, settingsVars, conversation_lock,
                    cancel_requested, cur, sent_outside, nmsgs, nruns, overlapped,
                    listener_log, conversation_ended >>

\* after the transcript event was sent: a final text that is not blank is
\* added to the buffer
ListenerAccumulates ==
    /\ pc["stt"] = "t_sent"
    /\ ~cancel_requested
    /\ accumulated_text' =
          IF event.is_final /\ Strip(event.text) # <<>>
          THEN Accumulate(accumulated_text, event.text)
          ELSE accumulated_text
    /\ event' = NoEvent
    /\ pc' = [pc EXCEPT !["stt"] = AfterCall("stt")]
    /\ UNCHANGED << sessionVars, sttVars, llmVars, settingsVars, conversation_lock,
                    cancel_requested, cur, sent_outside, nmsgs, nruns, overlapped,
                    listener_log, conversation_ended >>

\* get_transcripts: the wait on the queue times out and the service is no
\* longer connected, so the generator and the listener end
ListenerEnds ==
    /\ pc["stt"] = "get"
    /\ ~cancel_requested
    /\ transcript_queue = <<>>
    /\ ~is_connected
    /\ pc' = [pc EXCEPT !["stt"] = "done"]
    /\ UNCHANGED << sessionVars, sttVars, llmVars, settingsVars, accumulated_text,
                    conversation_lock, cancel_requested, cur, event, sent_outside,
                    nmsgs, nruns, overlapped, listener_log, conversation_ended >>

\* a cancellation that leaves the lock as the listener held it
LockKeptOnCancel(lock, where) == lock

\* the lock after CancelledError reached the listener where it was suspended
LockAfterCancel(lock, where) ==
    IF where = "lock" THEN acquire_cancelled(lock, "stt")
    ELSE IF where \in PipelinePcs THEN release(lock)
    ELSE lock

\* CancelledError is raised in the listener at the await it is suspended in;
\* `except Exception` does not catch it, `async with` releases the lock, and
\* run_stt_listener returns
ListenerCancelled ==
    /\ cancel_requested
    /\ ListenerAlive
    /\ cancel_requested' = FALSE
    /\ conversation_lock' = LockAfterCancel(conversation_lock, pc["stt"])
    /\ cur' = [cur EXCEPT !["stt"] = NoCall]
    /\ event' = NoEvent
    /\ pc' = [pc EXCEPT !["stt"] = "done"]
    /\ UNCHANGED << sessionVars, sttVars, llmVars, settingsVars, accumulated_text,
                    sent_outside, nmsgs, nruns, overlapped, listener_log,
                    conversation_ended >>

(* ------------------------------- Next --------------------------------- *)
\* the outcomes of the reply-generation stream the session model draws from
SessionLlmOutcomes == {"record", "api_error"}

\* the steps of a pipeline run and of the wait for the lock
RunStep(t) ==
    \/ LockAcquired(t)
    \/ CallGenerate(t)
    \/ \E outcome \in SessionLlmOutcomes : StreamEnds(t, outcome)
    \/ SendResponse(t)
    \/ StartSynthesis(t)
    \/ ChunkArrives(t)
    \/ NextChunk(t)
    \/ WsFails(t)
    \/ SynthesisEnds(t)
    \/ RunCompletes(t)
    \/ StepRaises(t)
    \/ RunFails(t)

\* the steps of the transcript listener
ListenerStep ==
    \/ ListenerGets
    \/ ListenerAccumulates
    \/ ListenerEnds
    \/ ListenerCancelled

\* a session: at most MaxMsgs client messages before the stop or disconnect,
\* at most MaxEvents recognition events
Next ==
    \/ \E outcome \in ConnectOutcomes : Initialize("case_a", outcome)
    \/ EnterLoop
    \/ \E data \in {"", "pcm"}, send_ok \in BOOLEAN :
          nmsgs < MaxMsgs /\ ReceiveAudio(data, send_ok)
    \/ \E text \in ClientTexts : nmsgs < MaxMsgs /\ ReceiveText(text)
    \/ \E case_id \in {"case_b", "missing"} :
          nmsgs < MaxMsgs /\ ReceiveConfig(case_id)
    \/ nmsgs < MaxMsgs /\ ReceiveIgnored
    \/ ReceiveStop
    \/ ReceiveDisconnect
    \/ ReceiveMalformed
    \/ CleanupEnds
    \/ \E tr \in SessionTranscripts :
          nevents < MaxEvents /\ OnTranscript(tr[1], tr[2])
    \/ nevents < MaxEvents /\ OnUtteranceEnd
    \/ OnClose
    \/ ListenerStep
    \/ \E t \in Tasks : RunStep(t)

Spec == Init /\ [][Next]_vars

\* a voice-only session: the client sends audio that the service recognises
\* as at most MaxVoiceEvents events, and then stops or disconnects
VoiceNext ==
    \/ Initialize("case_a", "ok")
    \/ EnterLoop
    \/ ReceiveStop
    \/ ReceiveDisconnect
    \/ CleanupEnds
    \/ \E tr \in Transcripts :
          nevents < MaxVoiceEvents /\ OnTranscript(tr[1], tr[2])
    \/ nevents < MaxVoiceEvents /\ OnUtteranceEnd
    \/ OnClose
    \/ ListenerGets
    \/ ListenerAccumulates
    \/ ListenerEnds
    \/ ListenerCancelled
    \/ CallGenerate("stt")
    \/ \E outcome \in SessionLlmOutcomes : StreamEnds("stt", outcome)
    \/ SendResponse("stt")
    \/ StartSynthesis("stt")
    \/ ChunkArrives("stt")
    \/ NextChunk("stt")
    \/ WsFails("stt")
    \/ SynthesisEnds("stt")
    \/ RunCompletes("stt")
    \/ StepRaises("stt")
    \/ RunFails("stt")

VoiceSpec == Init /\ [][VoiceNext]_vars

\* the voice-only session with the event loop running every task that is
\* ready: the listener's awaits (the queue, its 0.1 s timeout, send_json)
\* and those of its run return, and so does cleanup's await
LiveVoiceSpec ==
    /\ Init
    /\ [][VoiceNext]_vars
    /\ WF_vars(ListenerStep)
    /\ WF_vars(RunStep("stt"))
    /\ WF_vars(CleanupEnds)

\* a long text-only conversation with one persona: the recognition service
\* has no key, the client sends up to MaxTurns texts one after the other,
\* and the capability call may fail in the first MaxFailingRuns runs
HistoryNext ==
    \/ Initialize("case_a", "no_key")
    \/ EnterLoop
    \/ \E text \in ClientTexts : nmsgs < MaxTurns /\ ReceiveText(text)
    \/ CallGenerate("main")
    \/ \E outcome \in SessionLlmOutcomes :
          /\ outcome = "api_error" => cur["main"].run <= MaxFailingRuns
          /\ StreamEnds("main", outcome)
    \/ SendResponse("main")
    \/ StartSynthesis("main")
    \/ SynthesisEnds("main")
    \/ RunCompletes("main")

HistorySpec == Init /\ [][HistoryNext]_vars

(* --------------------- the mapper called directly --------------------- *)
\* get_emotion_mapping(emotion, intensity) is called and returns
GetEmotionMapping(emotion, intensity) ==
    LET result == get_emotion_mapping(emotion, intensity) IN
    /\ mapper_calls' = Append(mapper_calls,
                              [emotion |-> emotion, intensity |-> intensity,
                               result |-> result])
    /\ emotion_map' = TableAfterCall(emotion_map, emotion, result)
    /\ UNCHANGED << sessionVars, sttVars, llmVars, api_key_valid, tts_configured,
                    model_id, tagged_calls,
                    accumulated_text, conversation_lock, pc, cancel_requested,
                    cur, event, sent_outside, nmsgs, nruns, overlapped,
                    listener_log, conversation_ended >>

\* one call, for every emotion and every intensity from 0.00 to 1.00
MapperNext ==
    \E emotion \in EmotionType, intensity \in 0..100 :
       mapper_calls = <<>> /\ GetEmotionMapping(emotion, intensity)

MapperSpec == Init /\ [][MapperNext]_vars

\* up to MaxMapperCalls calls one after the other, at the ends of the
\* intensity range
PurityNext ==
    \E emotion \in EmotionType, intensity \in {0, 100} :
       Len(mapper_calls) < MaxMapperCalls /\ GetEmotionMapping(emotion, intensity)

PuritySpec == Init /\ [][PurityNext]_vars

\* a text-only session: the recognition service cannot be acquired, the
\* client sends texts and audio, and the reply stream may end in any way
GenerateNext ==
    \/ \E outcome \in ConnectOutcomes \ {"ok"} : Initialize("case_a", outcome)
    \/ EnterLoop
    \/ \E data \in {"", "pcm"}, send_ok \in BOOLEAN :
          nmsgs < MaxMsgs /\ ReceiveAudio(data, send_ok)
    \/ \E text \in ClientTexts : nmsgs < MaxMsgs /\ ReceiveText(text)
    \/ ReceiveStop
    \/ CleanupEnds
    \/ CallGenerate("main")
    \/ \E outcome \in LlmOutcomes : StreamEnds("main", outcome)
    \/ SendResponse("main")
    \/ StartSynthesis("main")
    \/ ChunkArrives("main")
    \/ NextChunk("main")
    \/ WsFails("main")
    \/ SynthesisEnds("main")
    \/ RunCompletes("main")

GenerateSpec == Init /\ [][GenerateNext]_vars

\* a text-only session in which a step of a run may raise
FaultNext ==
    \/ GenerateNext
    \/ StepRaises("main")
    \/ RunFails("main")

FaultSpec == Init /\ [][FaultNext]_vars

\* a text-only session whose client changes the persona between its texts:
\* the receive loop handles one command at a time, so no run is in flight
\* when a config command is handled
ConfigNext ==
    \/ Initialize("case_a", "no_key")
    \/ EnterLoop
    \/ \E text \in ClientTexts : nmsgs < MaxConfigMsgs /\ ReceiveText(text)
    \/ \E case_id \in {"case_b", "missing"} :
          nmsgs < MaxConfigMsgs /\ ReceiveConfig(case_id)
    \/ CallGenerate("main")
    \/ \E outcome \in SessionLlmOutcomes : StreamEnds("main", outcome)
    \/ SendResponse("main")
    \/ StartSynthesis("main")
    \/ SynthesisEnds("main")
    \/ RunCompletes("main")

ConfigSpec == Init /\ [][ConfigNext]_vars

\* a session that the client stops or leaves after at most MaxMsgs texts:
\* the recognition service reports at most MaxEvents events and may close
\* the connection. The event loop runs every task that is ready: cleanup's
\* await on connection.finish() returns, a cancelled listener gets its
\* CancelledError, the 0.1 s timeout of get_transcripts fires, and the
\* awaits of a pipeline run return.
StopNext ==
    \/ \E outcome \in ConnectOutcomes : Initialize("case_a", outcome)
    \/ EnterLoop
    \/ \E text \in ClientTexts : nmsgs < MaxMsgs /\ ReceiveText(text)
    \/ ReceiveStop
    \/ ReceiveDisconnect
    \/ CleanupEnds
    \/ \E tr \in SessionTranscripts :
          nevents < MaxEvents /\ OnTranscript(tr[1], tr[2])
    \/ nevents < MaxEvents /\ OnUtteranceEnd
    \/ OnClose
    \/ ListenerStep
    \/ \E t \in Tasks : RunStep(t)

StopSpec ==
    /\ Init
    /\ [][StopNext]_vars
    /\ WF_vars(CleanupEnds)
    /\ WF_vars(ListenerStep)
    /\ \A t \in Tasks : WF_vars(RunStep(t))

\* a text-only session whose replies are synthesized into up to
\* MaxStreamChunks chunks each, over the WebSocket transport and, when that
\* fails, the HTTP transport
AudioNext ==
    \/ Initialize("case_a", "no_key")
    \/ EnterLoop
    \/ \E text \in ClientTexts : nmsgs < MaxMsgs /\ ReceiveText(text)
    \/ CallGenerate("main")
    \/ \E outcome \in SessionLlmOutcomes : StreamEnds("main", outcome)
    \/ SendResponse("main")
    \/ StartSynthesis("main")
    \/ ChunkArrivesWithin("main", MaxStreamChunks)
    \/ NextChunk("main")
    \/ WsFails("main")
    \/ SynthesisEnds("main")
    \/ RunCompletes("main")

AudioSpec == Init /\ [][AudioNext]_vars

(* -------------------- the synthesis request of a run ------------------ *)
\* ELEVENLABS_MODEL_ID is set in the environment, which Settings prefers to
\* its default, before the session and its services are constructed
ConfigureModel(id) ==
    /\ pc["main"] = "init"
    /\ model_id = ELEVENLABS_MODEL_ID
    /\ model_id' = id
    /\ UNCHANGED << sessionVars, sttVars, llmVars, api_key_valid, tts_configured,
                    emotion_map, mapper_calls, tagged_calls,
                    accumulated_text, conversation_lock, pc, cancel_requested,
                    cur, event, sent_outside, nmsgs, nruns, overlapped,
                    listener_log, conversation_ended >>

\* a text-only session of a process whose synthesis model is the default
\* one, eleven_v3 or eleven_turbo_v2, with every outcome of the reply stream
TtsNext ==
    \/ \E id \in { << "e", "l", "e", "v", "e", "n", "_", "v", "3" >>,
                   << "e", "l", "e", "v", "e", "n", "_", "t", "u", "r", "b", "o",
                      "_", "v", "2" >> } : ConfigureModel(id)
    \/ Initialize("case_a", "no_key")
    \/ EnterLoop
    \/ \E text \in ClientTexts : nmsgs < MaxMsgs /\ ReceiveText(text)
    \/ CallGenerate("main")
    \/ \E outcome \in LlmOutcomes : StreamEnds("main", outcome)
    \/ SendResponse("main")
    \/ StartSynthesis("main")
    \/ SynthesisEnds("main")
    \/ RunCompletes("main")

TtsSpec == Init /\ [][TtsNext]_vars

(* ------------------- build_tagged_text called directly ----------------- *)
\* build_tagged_text(text, audio_tag, voice_direction) is called and returns
BuildTaggedText(text, audio_tag, voice_direction) ==
    /\ tagged_calls' =
          Append(tagged_calls,
                 [text |-> text, audio_tag |-> audio_tag,
                  voice_direction |-> voice_direction,
                  result |-> build_tagged_text(text, audio_tag, voice_direction)])
    /\ UNCHANGED << sessionVars, sttVars, llmVars, api_key_valid, tts_configured,
                    emotion_map, mapper_calls, model_id,
                    accumulated_text, conversation_lock, pc, cancel_requested,
                    cur, event, sent_outside, nmsgs, nruns, overlapped,
                    listener_log, conversation_ended >>

\* one call, for the tag of every emotion, two texts and these hints: none,
\* blank, every key of the lookup table, a key with blanks around it, and
\* two hints the table does not have
TagNext ==
    \E text \in { << "reply" >>, <<>> },
       emotion \in EmotionType,
       voice_direction \in
          { <<>>, << " " >>, << " ", "softly", " " >>, << "loudly" >>,
            << "softly", " ", "warmly" >> }
          \cup { << d >> : d \in DOMAIN VOICE_DIRECTION_TAG_MAP } :
       /\ tagged_calls = <<>>
       /\ BuildTaggedText(text, EMOTION_MAP[emotion].elevenlabs_audio_tag,
                          voice_direction)

TagSpec == Init /\ [][TagNext]_vars

(* ---------------------------- properties ----------------------------- *)
\* the session is TERMINATED: cleanup has set is_active to false
Terminated == pc["main"] \in {"m_finish", "done"}

IsMarker(m) == m.type = "audio" /\ m.is_final

\* how many end-of-audio markers a list of events holds
Markers(sent) == Cardinality({i \in 1..Len(sent) : IsMarker(sent[i])})

\* the place of an event among the events of one run
Rank(m) == CASE m.type = "status"                  -> 1
             [] m.type = "emotion"                 -> 2
             [] m.type = "response"                -> 3
             [] m.type = "audio" /\ ~m.is_final    -> 4
             [] m.type = "audio" /\ m.is_final     -> 5
             [] OTHER                              -> 6

\* an event of rank b may come right after one of rank a
MayFollow(a, b) ==
    \/ a = 1 /\ b = 2
    \/ a = 2 /\ b = 3
    \/ a \in {3, 4} /\ b \in {4, 5}
    \/ a \in 1..4 /\ b = 6

\* the events of one call are in the order of the steps, and the emotion and
\* response events carry the call's reply envelope
OrderedRun(call) ==
    LET s == call.sent IN
    /\ s # <<>> => s[1].type = "status" /\ s[1].text = "thinking"
    /\ \A i \in 1..(Len(s) - 1) : MayFollow(Rank(s[i]), Rank(s[i + 1]))
    /\ \A i \in 1..Len(s) :
          /\ s[i].type = "emotion" =>
                /\ s[i].intensity = call.llm_response.intensity
                /\ s[i].emotion =
                      EMOTION_MAP[call.llm_response.emotion].simli_emotion_id
          /\ s[i].type = "response" =>
                /\ s[i].text = call.llm_response.text
                /\ s[i].emotion = call.llm_response.emotion

\* C1: at most one pipeline run executes at any time, the lock is held
\* exactly while a run executes, and a call that found a run in flight has
\* sent nothing and waits until that run is over and the lock is passed on.
C1_OneRunAtATime ==
    /\ ~(InPipeline("main") /\ InPipeline("stt"))
    /\ conversation_lock.locked <=> (\E t \in Tasks : InPipeline(t))
    /\ \A t \in Tasks :
          pc[t] = "lock" =>
             /\ cur[t].sent = <<>>
             /\ \/ InPipeline(Other(t))
                \/ IsWoken(conversation_lock, t)
                \/ pc[Other(t)] = "lock" /\ IsWoken(conversation_lock, Other(t))

\* a run is executing while the other task's call waits for the lock
C1_Witness ==
    \E t \in Tasks :
        /\ InPipeline(t)
        /\ pc[Other(t)] = "lock"
        /\ ~IsWoken(conversation_lock, Other(t))

C3_EventOrder == \A t \in Tasks : OrderedRun(cur[t])

\* a run has sent all five kinds of events
C3_Witness ==
    \E t \in Tasks :
        /\ pc[t] = "p_final"
        /\ Len(cur[t].sent) = 5
        /\ cur[t].sent[4].type = "audio"

EventsOf(text) == {text[i].e : i \in 1..Len(text)} \ {0}

\* the recognition events handed to the pipeline so far
HandedBefore(log) ==
    UNION {EventsOf(log[i].user_text) : i \in {k \in 1..Len(log) : log[k].handed}}

\* the listener calls _process_conversation in this step
ListenerHandsOff == cur'["stt"].run # 0 /\ cur'["stt"].run # cur["stt"].run

\* C5: the buffer becomes empty only in the step that hands its trimmed
\* content to a call of the listener, a hand-off leaves it empty, and no
\* recognition event's text is handed in two utterances.
C5_BufferClearedAtHandOff ==
    [][/\ (accumulated_text # <<>> /\ accumulated_text' = <<>>) =>
             /\ ListenerHandsOff
             /\ cur'["stt"].user_text = Strip(accumulated_text)
       /\ ListenerHandsOff =>
             /\ accumulated_text' = <<>>
             /\ cur'["stt"].user_text = Strip(accumulated_text)
             /\ cur'["stt"].user_text # <<>>
             /\ EventsOf(cur'["stt"].user_text) \cap HandedBefore(listener_log) = {}
      ]_vars

\* two utterances were handed to the pipeline
C5_Witness ==
    /\ Cardinality({k \in 1..Len(listener_log) : listener_log[k].handed}) = 2
    /\ accumulated_text = <<>>

\* the trimmed text of a final transcript the listener consumed
Piece(entry) ==
    IF entry.event.type = "transcript" /\ entry.event.is_final
    THEN Plain(Strip(entry.event.text)) ELSE <<>>

\* the pieces that are not blank, joined by single spaces
RECURSIVE SpaceJoined(_)
SpaceJoined(entries) ==
    IF entries = <<>> THEN <<>>
    ELSE LET piece == Piece(Head(entries))
             rest == SpaceJoined(Tail(entries))
         IN  IF piece = <<>> THEN rest
             ELSE IF rest = <<>> THEN piece
             ELSE piece \o << " " >> \o rest

\* the entries of the log between the hand-off before entry j and entry j
SincePreviousHandOff(log, j) ==
    LET before == {i \in 1..(j - 1) : log[i].handed}
        from == IF before = {} THEN 1
                ELSE (CHOOSE i \in before : \A k \in before : k <= i) + 1
    IN  SubSeq(log, from, j - 1)

\* the listener consumes an utterance boundary while the buffer is blank
BlankBoundary ==
    /\ pc["stt"] = "get"
    /\ is_active
    /\ transcript_queue # <<>>
    /\ Head(transcript_queue).type = "utterance_end"
    /\ transcript_queue' = Tail(transcript_queue)
    /\ Strip(accumulated_text) = <<>>

C7_ReconfigureAtomic ==
    /\ \A t \in Tasks :
          (InPipeline(t) /\ cur[t].used_prompt # "") =>
             /\ cur[t].used_prompt = cur[t].start_prompt
             /\ cur[t].used_history =
                   Truncate(Append(cur[t].start_history,
                                   Turn("user", cur[t].user_text, cur[t].run)))
    /\ \A r \in overlapped :
          \A i \in 1..Len(conversation_history) : conversation_history[i].run > r

\* C8: is_active becomes true only in initialize and false only when the
\* receive loop is left for cleanup, a terminated session stays inactive,
\* and a run starts only while the session is active.
C8_Lifecycle ==
    [][/\ (~is_active /\ is_active') =>
             (pc["main"] = "init" /\ pc'["main"] = "m_connected")
       /\ (is_active /\ ~is_active') => (pc["main"] = "recv" /\ Terminated')
       /\ pc["main"] = "init" => ~is_active
       /\ Terminated => (~is_active /\ ~is_active' /\ Terminated')
       /\ \A t \in Tasks :
             (pc[t] # "p_thinking" /\ pc'[t] = "p_thinking") =>
                (is_active /\ is_active')
      ]_vars

\* a session that ran a pipeline was terminated
C8_Witness == pc["main"] = "done" /\ ~is_active /\ nruns > 0

\* C9: once the session is terminated, no run starts, no call is made, the
\* history and the buffer do not change and no event is sent.
C9_TerminatedIsQuiet ==
    [][Terminated =>
          /\ UNCHANGED << conversation_history, accumulated_text, sent_outside,
                          nruns, system_prompt >>
          /\ \A t \in Tasks :
                /\ Len(cur'[t].sent) <= Len(cur[t].sent)
                /\ pc'[t] \in PipelinePcs => pc'[t] = pc[t]
      ]_vars

\* the session is terminated, the connection still open, the listener gone,
\* and a recognition event lies in the queue
C9_Witness ==
    /\ Terminated
    /\ connection = "open"
    /\ pc["stt"] = "done"
    /\ transcript_queue # <<>>

\* C10 as claimed: a run in flight is not ended by the cancellation that
\* session termination requests: it is never abandoned at the await it was
\* suspended in.
C10_NoHardKill ==
    [][\A t \in Tasks :
          (pc[t] \in PipelinePcs /\ pc'[t] \notin PipelinePcs) =>
             (~cancel_requested /\ pc[t] \in {"p_final", "p_error"})]_vars

\* C11 as claimed: a session is terminated only by a stop command or a
\* disconnect of the transport; no other inbound message and no failure
\* makes it leave the receive loop.
C11_OnlyStopOrDisconnect == Terminated => left_by = "request"

\* turn x was said before turn y
Earlier(x, y) ==
    \/ x.run < y.run
    \/ x.run = y.run /\ x.role = "user" /\ y.role = "assistant"

\* C12: while the capability is invoked, the context it was given holds at
\* most max_history_length turns, they are the most recent turns of the
\* conversation (the stored history followed by the current user turn) in
\* their order, the last one is the current user turn, and from the 21st
\* user turn on the first user turn is not in the context.
C12_ContextIsRecentTurns ==
    \A t \in Tasks :
       pc[t] = "p_llm" =>
          LET context == cur[t].used_history
              current == Turn("user", cur[t].user_text, cur[t].run)
              turns   == Append(cur[t].start_history, current)
              n       == Len(context)
          IN  /\ n <= max_history_length
              /\ n = Min(max_history_length, Len(turns))
              /\ \A i \in 1..n : context[i] = turns[Len(turns) - n + i]
              /\ \A i, j \in 1..n : i < j => Earlier(context[i], context[j])
              /\ context[n] = current
              /\ cur[t].run > max_history_length =>
                    \A i \in 1..n : context[i].run # 1

\* the 21st user turn is sent to the capability: the stored history held
\* max_history_length + 1 turns (the previous context and the reply to it),
\* and its two oldest turns are dropped
C12_Witness ==
    /\ pc["main"] = "p_llm"
    /\ cur["main"].run = max_history_length + 1
    /\ Len(cur["main"].start_history) = max_history_length + 1
    /\ Len(cur["main"].used_history) = max_history_length
    /\ cur["main"].used_history[1] = cur["main"].start_history[3]

\* C13 as claimed: a raw output that is not a well-formed record (not a
\* JSON object, or an object with a field of an invalid type) becomes the
\* envelope (raw output, neutral, 0.5, no delivery hint).
C13_FallbackForMalformedOutput ==
    \A t \in Tasks :
       LET data == cur[t].output.data
           WellFormed ==
              /\ data.type = "object"
              /\ data.text.type \in {"string", "numeral", "missing"}
              /\ \/ data.emotion.type = "missing"
                 \/ data.emotion.type = "string" /\ data.emotion.s \in EmotionType
              /\ \/ data.intensity.type = "missing"
                 \/ /\ data.intensity.type = "number"
                    /\ 0 <= data.intensity.n /\ data.intensity.n <= 100
              /\ data.voice_direction.type \in {"string", "numeral", "missing"}
       IN  InPipeline(t) /\ cur[t].output # NoOutput /\ ~WellFormed =>
              cur[t].llm_response = FallbackResponse(cur[t].output.raw_text)

\* C14: once generate_response has returned in a run (from the mock, the
\* parse, the parse fallback or an error handler), the envelope's intensity
\* is in [0,1] and its emotion is a member of EmotionType.
C14_EnvelopeInRange ==
    \A t \in Tasks :
       pc[t] \in {"p_emotion", "p_response", "p_tts", "p_audio", "p_final"} =>
          /\ 0 <= cur[t].llm_response.intensity
          /\ cur[t].llm_response.intensity <= 100
          /\ cur[t].llm_response.emotion \in EmotionType

\* the capability's record had intensity 1.5 and the envelope returned for
\* it has intensity 0.5
C14_Witness ==
    /\ pc["main"] = "p_emotion"
    /\ cur["main"].output.data.type = "object"
    /\ cur["main"].output.data.intensity.n > 100
    /\ cur["main"].llm_response.intensity = 50

\* the capability call of the run of task t raised anthropic.APIError:
\* generate_response was entered with a valid key and returned without a
\* raw output
ApiFailed(t) ==
    /\ api_key_valid
    /\ pc[t] \in {"p_emotion", "p_response", "p_tts", "p_audio", "p_final"}
    /\ cur[t].output = NoOutput

\* C15: when the capability call fails, generate_response returns the
\* apology envelope (neutral, 0.3); the run sends the emotion event and the
\* response event of that envelope and ends with the end-of-audio marker,
\* it sends no error event, and the session is still ACTIVE.
C15_ApiErrorIsContained ==
    \A t \in Tasks :
       ApiFailed(t) =>
          LET sent == cur[t].sent IN
          /\ cur[t].llm_response.text = "apology"
          /\ cur[t].llm_response.emotion = "neutral"
          /\ cur[t].llm_response.intensity = 30
          /\ \A i \in 1..Len(sent) : sent[i].type # "error"
          /\ sent[1] = StatusMessage("thinking")
          /\ sent[2] = EmotionMessage("neutral", 30)
          /\ pc[t] # "p_emotion" => sent[3] = ResponseMessage("apology", "neutral")
          /\ pc[t] = "p_final" =>
                /\ sent[Len(sent)] = AudioFinalMessage
                /\ \A i \in 4..(Len(sent) - 1) :
                      sent[i].type = "audio" /\ ~sent[i].is_final
          /\ is_active
          /\ left_by = "none"

\* a run whose capability call failed has sent the apology, an audio chunk
\* and the marker
C15_Witness ==
    /\ ApiFailed("main")
    /\ pc["main"] = "p_final"
    /\ cur["main"].audio_chunk_count > 0
    /\ Len(cur["main"].sent) > 4

\* C16: with no valid key the capability is never invoked and the history
\* never changes; generate_response returns the labelled placeholder, and
\* the run sends thinking, the emotion and response events of the
\* placeholder, and ends with the end-of-audio marker.
C16_PlaceholderWithoutKey ==
    ~api_key_valid =>
       /\ conversation_history = <<>>
       /\ \A t \in Tasks :
             /\ pc[t] # "p_llm"
             /\ cur[t].used_history = <<>>
             /\ pc[t] \in {"p_emotion", "p_response", "p_tts", "p_audio", "p_final"} =>
                   LET sent == cur[t].sent IN
                   /\ cur[t].llm_response.text = "mock"
                   /\ sent[1] = StatusMessage("thinking")
                   /\ sent[2] = EmotionMessage("happy", 60)
                   /\ pc[t] # "p_emotion" => sent[3] = ResponseMessage("mock", "happy")
                   /\ pc[t] = "p_final" => sent[Len(sent)] = AudioFinalMessage
                   /\ \A i \in 1..Len(sent) : sent[i].type # "error"

\* the second run of a session without a key has sent the placeholder and
\* the marker
C16_Witness ==
    /\ ~api_key_valid
    /\ pc["main"] = "p_final"
    /\ cur["main"].run > 1
    /\ cur["main"].llm_response.text = "mock"
    /\ cur["main"].sent[Len(cur["main"].sent)] = AudioFinalMessage

\* C17: for every emotion of the enumeration and every intensity in [0,1],
\* the mapping returned has a stability that is 0.0, 0.5 or 1.0, a style in
\* [0,1] and a speed in [0.7,1.2].
C17_MappingInRange ==
    \A k \in 1..Len(mapper_calls) :
       LET result == mapper_calls[k].result IN
       /\ result.voice_stability \in {0, 50, 100}
       /\ 0 <= result.voice_style /\ result.voice_style <= 10000
       /\ 70 <= result.voice_speed /\ result.voice_speed <= 120

\* angry at intensity 1.0: the style 0.7 + 0.2 stays below 1.0, the
\* stability 0.35 - 0.2 is rounded down to 0.0
C17_Witness ==
    /\ mapper_calls # <<>>
    /\ mapper_calls[1].emotion = "angry"
    /\ mapper_calls[1].intensity = 100
    /\ mapper_calls[1].result.voice_stability = 0
    /\ mapper_calls[1].result.voice_style = 9000

C19_SynthesisFallback ==
    [][\A t \in Tasks :
          LET call  == cur[t]
              after == cur'[t]
          IN  /\ call.transport = "ws" /\ after.transport = "http" =>
                    /\ after.llm_response = call.llm_response
                    /\ after.sent = call.sent
                    /\ pc'[t] = "p_tts"
              /\ call.transport = "http" /\ after.run = call.run =>
                    after.transport = "http"
              /\ pc[t] = "p_tts" => pc'[t] \in {"p_tts", "p_audio", "p_final"}
              /\ /\ pc[t] = "p_tts" /\ pc'[t] = "p_final"
                 /\ call.transport = "http" /\ call.produced = 0
                 => after.sent = << StatusMessage("thinking"),
                                    EmotionEvent(call.llm_response),
                                    ResponseEvent(call.llm_response),
                                    AudioFinalMessage >>
              /\ pc[t] = "p_final" /\ pc'[t] # "p_final" =>
                    /\ pc'[t] = AfterCall(t)
                    /\ ~conversation_lock'.locked
    ]_vars

\* both transports ended without a chunk: the run is at its end with four
\* events
C19_Witness ==
    /\ pc["main"] = "p_final"
    /\ cur["main"].transport = "http"
    /\ cur["main"].produced = 0
    /\ Len(cur["main"].sent) = 4
    /\ cur["main"].sent[4] = AudioFinalMessage

\* C20: when connect() fails in initialize, the session is ACTIVE (until the
\* receive loop is left) with stt_available false; no listener task exists;
\* status(connected) and then status(stt_unavailable) are the first events
\* sent; nothing a client sends reaches the recognition service or the
\* accumulator; and every run is one a text command started.
C20_TextOnlyMode ==
    pc["main"] # "init" /\ ~stt_available =>
       /\ left_by = "none" => is_active
       /\ pc["stt"] = "none" /\ ~cancel_requested
       /\ sent_outside[1] = StatusMessage("connected")
       /\ pc["main"] = "m_connected" => Len(sent_outside) = 1
       /\ pc["main"] # "m_connected" =>
             /\ Len(sent_outside) >= 2
             /\ sent_outside[2] = StatusMessage("stt_unavailable")
       /\ ~is_connected /\ connection # "open"
       /\ transcript_queue = <<>> /\ accumulated_text = <<>> /\ listener_log = <<>>
       /\ cur["stt"] = NoCall
       /\ InPipeline("main") =>
             /\ cur["main"].run = nruns
             /\ nruns <= nmsgs
             /\ cur["main"].user_text = <<Ch("a", 0)>>

\* in text-only mode two commands were received, one ignored and a text
\* that started the first run
C20_Witness ==
    /\ ~stt_available
    /\ connection = "unstarted"
    /\ nmsgs = 2
    /\ nruns = 1
    /\ pc["main"] = "p_thinking"
    /\ cur["main"].sent = << StatusMessage("thinking") >>

\* C21: when a step of a run raises, the error event is appended to events
\* that hold no error event; after it the run sends nothing and takes no
\* other step than its return, which releases the lock and leaves the
\* session as it was (ACTIVE, the receive loop not left), ready to
\* receive the next command.
C21_StepErrorEndsRunOnly ==
    [][\A t \in Tasks :
          LET call  == cur[t]
              after == cur'[t]
          IN  /\ pc[t] # "p_error" /\ pc'[t] = "p_error" =>
                    /\ \A i \in 1..Len(call.sent) : call.sent[i].type # "error"
                    /\ Len(after.sent) = Len(call.sent) + 1
                    /\ after.sent[Len(after.sent)].type = "error"
                    /\ SubSeq(after.sent, 1, Len(call.sent)) = call.sent
                    /\ conversation_lock'.locked
                    /\ is_active'
              /\ pc[t] = "p_error" =>
                    \/ pc'[t] = "p_error" /\ after = call
                    \/ /\ pc'[t] = "recv"
                       /\ after = NoCall
                       /\ ~conversation_lock'.locked
                       /\ is_active' /\ left_by' = "none"
                       /\ CanReceive'
    ]_vars

\* the second run of a session has sent its error event, after a first run
\* that failed as well (it stored no assistant turn)
C21_Witness ==
    /\ pc["main"] = "p_error"
    /\ cur["main"].run = 2
    /\ cur["main"].sent[Len(cur["main"].sent)].type = "error"
    /\ Len(conversation_history) = 2
    /\ conversation_history[1].role = "user"
    /\ conversation_history[2].role = "user"

\* C22 as claimed: the stored conversation history never holds more than
\* max_history_length turns.
C22_HistoryAtMostTwenty == Len(conversation_history) <= max_history_length

\* C23 as claimed: a record whose intensity is a number outside [0,1]
\* becomes an envelope with the record's text and emotion and the intensity
\* clamped to the nearer bound; a record whose emotion is not a member of
\* EmotionType becomes an envelope with the record's text and emotion
\* neutral.
C23_ClampedRecord ==
    \A t \in Tasks :
       LET data     == cur[t].output.data
           response == cur[t].llm_response
       IN  InPipeline(t) /\ data.type = "object" /\ data.text.type = "string" =>
              /\ /\ data.intensity.type = "number"
                 /\ data.intensity.n > 100 \/ data.intensity.n < 0
                 /\ data.emotion.type = "string"
                 /\ data.emotion.s \in EmotionType
                 => /\ response.text = data.text.s
                    /\ response.emotion = data.emotion.s
                    /\ response.intensity = Max(0, Min(100, data.intensity.n))
              /\ /\ data.emotion.type = "string"
                 /\ data.emotion.s \notin EmotionType
                 => /\ response.text = data.text.s
                    /\ response.emotion = "neutral"

\* C24 as claimed: a config command handled with no run in flight leaves
\* the history empty, sends one status(profile_changed), and makes the
\* directive that of the persona it names.
C24_ReconfigureSelects ==
    [][\A case_id \in {"case_b", "missing"} :
          ReceiveConfig(case_id) /\ (\A t \in Tasks : ~InPipeline(t)) =>
             /\ conversation_history' = <<>>
             /\ sent_outside' = Append(sent_outside, StatusMessage("profile_changed"))
             /\ system_prompt' = case_id
    ]_vars

\* C24: a config command handled with no run in flight leaves the history
\* empty and sends one status(profile_changed); when it names a persona
\* that exists the directive becomes that persona's, otherwise the
\* directive stays as it was. The directive changes in no other step of
\* the receive loop, and a capability call uses the directive in effect
\* and a history that starts after the last config command.
C24_ReconfigureKnownPersona ==
    [][/\ \A case_id \in {"case_b", "missing"} :
             ReceiveConfig(case_id) /\ (\A t \in Tasks : ~InPipeline(t)) =>
                /\ conversation_history' = <<>>
                /\ sent_outside' = Append(sent_outside, StatusMessage("profile_changed"))
                /\ case_id \in Personas => system_prompt' = case_id
                /\ case_id \notin Personas => system_prompt' = system_prompt
       /\ system_prompt' # system_prompt =>
             \/ pc["main"] = "init"
             \/ \E case_id \in Personas : ReceiveConfig(case_id)
       /\ \A t \in Tasks :
             pc[t] = "p_thinking" /\ pc'[t] = "p_llm" =>
                /\ cur'[t].used_prompt = system_prompt
                /\ cur'[t].used_history =
                      Truncate(Append(conversation_history,
                                      Turn("user", cur[t].user_text, cur[t].run)))
    ]_vars

\* the second run of a session calls the capability with the directive of
\* case_b and a history that holds its own user turn only: a config command
\* was handled after the first run
C24_Witness ==
    /\ pc["main"] = "p_llm"
    /\ cur["main"].run = 2
    /\ cur["main"].used_prompt = "case_b"
    /\ Len(cur["main"].used_history) = 1
    /\ sent_outside[Len(sent_outside)] = StatusMessage("profile_changed")

\* C25: after a stop command or a disconnect the session eventually is
\* terminated with the listener task finished, the recognition service
\* disconnected and its connection dropped, and the conversation record
\* closed; cleanup starts once and closes the record once; and a listener
\* whose recognition service is no longer connected eventually finishes.
C25_EventuallyTerminated ==
    /\ (left_by = "request") ~>
          /\ pc["main"] = "done"
          /\ ~is_active
          /\ ~ListenerAlive
          /\ ~cancel_requested
          /\ ~is_connected
          /\ connection = "none"
          /\ conversation_ended
    /\ (pc["stt"] # "none" /\ ~is_connected) ~> (pc["stt"] = "done")
    /\ [][/\ left_by # "none" => left_by' = left_by
          /\ conversation_ended => conversation_ended'
          /\ (~conversation_ended /\ conversation_ended') =>
                (pc["main"] # "done" /\ pc'["main"] = "done")
          /\ (ListenerAlive /\ left_by = "none" /\ left_by' # "none") =>
                cancel_requested'
       ]_vars

\* a stopped session is over: its listener had handed an utterance to the
\* pipeline, the record is closed, and an event was left in the queue
C25_Witness ==
    /\ left_by = "request"
    /\ pc["main"] = "done"
    /\ pc["stt"] = "done"
    /\ conversation_ended
    /\ connection = "none"
    /\ \E i \in 1..Len(listener_log) : listener_log[i].handed

\* C26: the audio events a run has sent are the chunks its synthesis has
\* yielded so far, each once and in the order they were yielded; when the
\* next chunk is requested every chunk yielded before has been forwarded;
\* and the end-of-audio marker comes after all of them, as the last event.
C26_ChunksForwardedInOrder ==
    \A t \in Tasks :
       InPipeline(t) =>
          LET sent  == cur[t].sent
              audio == SelectSeq(sent, LAMBDA m : m.type = "audio" /\ ~m.is_final)
          IN  /\ Len(audio) = cur[t].produced
              /\ \A i \in 1..Len(audio) : audio[i].audio_data.b64.n = i
              /\ pc[t] = "p_tts" => cur[t].audio_chunk_count = cur[t].produced
              /\ pc[t] = "p_audio" =>
                    /\ cur[t].audio_chunk_count + 1 = cur[t].produced
                    /\ sent[Len(sent)].type = "audio"
                    /\ ~sent[Len(sent)].is_final
              /\ \A i \in 1..Len(sent) :
                    IsMarker(sent[i]) =>
                       /\ i = Len(sent)
                       /\ pc[t] = "p_final"
                       /\ cur[t].audio_chunk_count = cur[t].produced

\* a run forwarded three chunks, the first from the WebSocket transport and
\* the last from the HTTP transport, and then sent the marker
C26_Witness ==
    /\ pc["main"] = "p_final"
    /\ cur["main"].produced = 3
    /\ cur["main"].transport = "http"
    /\ \E i \in 1..Len(cur["main"].sent) :
          /\ cur["main"].sent[i].type = "audio"
          /\ ~cur["main"].sent[i].is_final
          /\ cur["main"].sent[i].audio_data.b64.transport = "ws"
    /\ IsMarker(cur["main"].sent[Len(cur["main"].sent)])

\* C27 as claimed: the synthesis request of a run carries the reply text
\* behind the emotion's tag and the tag of the delivery hint, and the
\* stability, style and speed of the mapping of the run's envelope.
C27_RequestIsTagged ==
    \A t \in Tasks :
       (InPipeline(t) /\ cur[t].transport # "none") =>
          LET response == cur[t].llm_response
              mapping == get_emotion_mapping(response.emotion, response.intensity)
              hint == IF response.voice_direction = "" THEN <<>>
                      ELSE << response.voice_direction >>
          IN  /\ cur[t].request.text =
                    build_tagged_text(<< response.text >>,
                                      mapping.elevenlabs_audio_tag, hint)
              /\ cur[t].request.stability = mapping.voice_stability
              /\ cur[t].request.style = mapping.voice_style
              /\ cur[t].request.speed = mapping.voice_speed

\* C27: the synthesis request of a run carries the stability, style and
\* speed of the mapping of the run's envelope; its text is the reply text
\* behind the emotion's tag and the tag of the delivery hint when the model
\* id starts with eleven_v3, and the reply text alone for any other model,
\* the default one included.
C27_RequestTaggedForV3 ==
    \A t \in Tasks :
       (InPipeline(t) /\ cur[t].transport # "none") =>
          LET response == cur[t].llm_response
              mapping == get_emotion_mapping(response.emotion, response.intensity)
              hint == IF response.voice_direction = "" THEN <<>>
                      ELSE << response.voice_direction >>
          IN  /\ supports_audio_tags(model_id) =>
                    cur[t].request.text =
                       build_tagged_text(<< response.text >>,
                                         mapping.elevenlabs_audio_tag, hint)
              /\ ~supports_audio_tags(model_id) =>
                    cur[t].request.text = << response.text >>
              /\ cur[t].request.stability = mapping.voice_stability
              /\ cur[t].request.style = mapping.voice_style
              /\ cur[t].request.speed = mapping.voice_speed

\* with the model eleven_v3 the request of an (empathetic, 0.7, softly)
\* reply carries both tags and the voice settings 0.5, 0.54 and 0.87
C27_Witness ==
    /\ pc["main"] = "p_tts"
    /\ model_id = << "e", "l", "e", "v", "e", "n", "_", "v", "3" >>
    /\ cur["main"].llm_response.emotion = "empathetic"
    /\ cur["main"].request =
          [text |-> << "[calm]", " ", "[softly]", " ", "reply" >>,
           stability |-> 50, style |-> 5400, speed |-> 87]

\* C28 as claimed: for every emotion and every intensity i the mapping has
\* the stability quantize(stability0 - 0.2 i), with quantize(x) = 0.0 below
\* 0.25, 0.5 from 0.25 to below 0.75 and 1.0 from there, the style
\* min(1.0, style0 + 0.2 i), and the speed 1.0 + (speed0 - 1.0)(0.5 + 0.5 i)
\* rounded to two decimals (a tie either way) and clamped to [0.7, 1.2].
C28_MapperFormulas ==
    \A k \in 1..Len(mapper_calls) :
       LET call == mapper_calls[k]
           base == EMOTION_MAP[call.emotion]
           i == call.intensity
           \* stability0 - 0.2 i in 1/10000
           x == base.voice_stability * 100 - 20 * i
           \* 1.0 + (speed0 - 1.0)(0.5 + 0.5 i) in 1/20000
           speed == 20000 + (base.voice_speed - 100) * (100 + i)
       IN  /\ call.result.voice_stability =
                 IF x < 2500 THEN 0 ELSE IF x < 7500 THEN 50 ELSE 100
           /\ call.result.voice_style =
                 Min(10000, base.voice_style * 100 + 20 * i)
           /\ \E r \in 0..200 :
                 /\ 200 * r - speed \in -100..100
                 /\ call.result.voice_speed = Max(70, Min(120, r))

\* C29: for every emotion and intensities i1 <= i2, the mapping at i2 has a
\* stability that is not higher and a style that is not lower than the
\* mapping at i1, and a speed that is not nearer to 1.0.
C29_MonotoneInIntensity ==
    \A k \in 1..Len(mapper_calls) :
       \A i1 \in 0..mapper_calls[k].intensity :
          LET at2 == mapper_calls[k].result
              at1 == get_emotion_mapping(mapper_calls[k].emotion, i1)
              Deviation(m) == IF m.voice_speed >= 100 THEN m.voice_speed - 100
                              ELSE 100 - m.voice_speed
          IN  /\ at2.voice_stability <= at1.voice_stability
              /\ at2.voice_style >= at1.voice_style
              /\ Deviation(at2) >= Deviation(at1)

\* sad at intensity 1.0 came out less stable, more styled and slower than
\* sad at intensity 0.0 does
C29_Witness ==
    /\ mapper_calls # <<>>
    /\ mapper_calls[1].emotion = "sad"
    /\ mapper_calls[1].intensity = 100
    /\ mapper_calls[1].result.voice_stability = 0
    /\ mapper_calls[1].result.voice_speed = 78
    /\ get_emotion_mapping("sad", 0).voice_stability = 50
    /\ get_emotion_mapping("sad", 0).voice_speed = 89

\* C30: build_tagged_text returns the text behind the emotion tag (when
\* there is one) and then the tag the lookup table has for the trimmed
\* delivery hint (when it has one and it differs from the emotion tag),
\* each followed by one space; a hint that is empty, blank or not in the
\* table adds nothing, and with no tag at all the text comes back as it is.
C30_TaggedText ==
    \A k \in 1..Len(tagged_calls) :
       LET call == tagged_calls[k]
           hint == call.voice_direction
           word == SelectSeq(hint, LAMBDA piece : piece # " ")
           inner == Len(word) = 1 /\ Len(hint) <= 3
                    /\ hint[(Len(hint) + 1) \div 2] = word[1]
           delivery == IF inner /\ word[1] \in DOMAIN VOICE_DIRECTION_TAG_MAP
                       THEN VOICE_DIRECTION_TAG_MAP[word[1]] ELSE ""
           first == IF call.audio_tag # "" THEN << call.audio_tag, " " >> ELSE <<>>
           second == IF delivery # "" /\ delivery # call.audio_tag
                     THEN << delivery, " " >> ELSE <<>>
       IN  call.result = first \o second \o call.text

\* a call with the tag of empathetic and a hint with blanks around it
\* returned the text behind both tags
C30_Witness ==
    /\ tagged_calls # <<>>
    /\ tagged_calls[1].audio_tag = "[calm]"
    /\ tagged_calls[1].voice_direction = << " ", "softly", " " >>
    /\ tagged_calls[1].result = << "[calm]", " ", "[softly]", " ", "reply" >>

\* C31: the listener forwards every transcript event it handles, a partial
\* one as transcript(text, is_final = false); handling a partial transcript
\* leaves the buffer as it is, and the buffer grows only by the trimmed text
\* of a final transcript that is not blank.
C31_PartialsNeverAccumulated ==
    [][/\ (pc["stt"] = "get" /\ pc'["stt"] = "t_sent") =>
             /\ event' = Head(transcript_queue)
             /\ sent_outside' =
                   Append(sent_outside,
                          [type |-> "transcript", text |-> Plain(event'.text),
                           is_final |-> event'.is_final])
             /\ accumulated_text' = accumulated_text
       /\ (pc["stt"] = "t_sent" /\ ~event.is_final) =>
             accumulated_text' = accumulated_text
       /\ (accumulated_text' # accumulated_text /\ accumulated_text' # <<>>) =>
             /\ pc["stt"] = "t_sent"
             /\ event.type = "transcript"
             /\ event.is_final
             /\ Strip(event.text) # <<>>
             /\ accumulated_text' =
                   accumulated_text \o << Ch(" ", 0) >> \o Strip(event.text)
      ]_vars

\* the listener has handled a partial transcript after a final one: the
\* partial one went out with is_final = false and the buffer holds the
\* final one only
C31_Witness ==
    /\ pc["stt"] = "get"
    /\ Len(listener_log) = 2
    /\ listener_log[1].event.is_final /\ Strip(listener_log[1].event.text) # <<>>
    /\ listener_log[2].event.type = "transcript" /\ ~listener_log[2].event.is_final
    /\ Len(sent_outside) >= 2
    /\ sent_outside[Len(sent_outside)] =
          [type |-> "transcript", text |-> << "h" >>, is_final |-> FALSE]
    /\ accumulated_text = << Ch(" ", 0) >> \o Strip(listener_log[1].event.text)

\* C32: the text of every call of _process_conversation is trimmed and not
\* empty, so generate_response is never called with a blank text; a text
\* command whose text is blank and an utterance boundary that finds the
\* buffer blank start no call and send nothing.
C32_RunsHaveText ==
    /\ [](\A t \in Tasks :
            cur[t].run # 0 =>
               /\ cur[t].user_text # <<>>
               /\ Strip(cur[t].user_text) = cur[t].user_text)
    /\ [][nruns' # nruns =>
             \E t \in Tasks : /\ cur'[t].run = nruns'
                              /\ cur[t].run # nruns'
                              /\ Strip(cur'[t].user_text) # <<>>]_vars
    /\ [][(\/ BlankBoundary
           \/ \E text \in ClientTexts :
                 Strip(Tag(text, 0)) = <<>> /\ ReceiveText(text)) =>
             UNCHANGED << nruns, cur, sent_outside, conversation_lock,
                          conversation_history, accumulated_text >>]_vars

\* the client's second message started the only run there is, with its
\* text trimmed, after the listener met a boundary with an empty buffer
C32_Witness ==
    /\ nmsgs = 2
    /\ nruns = 1
    /\ pc["main"] = "p_llm"
    /\ Plain(cur["main"].user_text) = << "a" >>
    /\ Len(listener_log) = 1
    /\ listener_log[1].event.type = "utterance_end"
    /\ ~listener_log[1].handed

\* C33 as claimed: the audio events of a run come from one transport, and
\* the HTTP transport is in use only in a run whose WebSocket transport
\* yielded no chunk.
C33_SingleSynthesisAttempt ==
    \A t \in Tasks :
       InPipeline(t) =>
          LET audio == SelectSeq(cur[t].sent,
                                 LAMBDA m : m.type = "audio" /\ ~m.is_final)
          IN  /\ \A i, j \in 1..Len(audio) :
                    audio[i].audio_data.b64.transport =
                       audio[j].audio_data.b64.transport
              /\ cur[t].transport = "http" =>
                    \A i \in 1..Len(audio) :
                       audio[i].audio_data.b64.transport = "http"

\* C34 as claimed: the history a run passes to the reply generation begins
\* with a user turn, and its turns are of the user and the assistant in
\* turn.
C34_ContextAlternates ==
    \A t \in Tasks :
       LET history == cur[t].used_history
       IN  \A i \in 1..Len(history) :
              history[i].role = IF i % 2 = 1 THEN "user" ELSE "assistant"

\* C35: while the receive loop's own call of _process_conversation has not
\* returned, no step handles an inbound command (no message is counted, the
\* loop is not left, the session stays as active as it was, the directive is
\* not replaced, no run is marked as reconfigured, the recognition service
\* is marked disconnected only by its own close, and nothing but a
\* transcript is sent outside the run); a config command is handled during
\* a run only if the run is the listener's.
C35_LoopWaitsForItsRun ==
    /\ [][pc["main"] \in {"lock"} \cup PipelinePcs =>
             /\ nmsgs' = nmsgs
             /\ left_by' = left_by
             /\ is_active' = is_active
             /\ system_prompt' = system_prompt
             /\ cancel_requested' = cancel_requested
             /\ is_connected' # is_connected =>
                   connection = "open" /\ connection' = "closed"
             /\ sent_outside' # sent_outside =>
                   sent_outside'[Len(sent_outside')].type = "transcript"
             /\ \A t \in Tasks : cur'[t].reconfigured => cur[t].reconfigured
      ]_vars
    /\ [](~cur["main"].reconfigured)
    /\ [][\A t \in Tasks :
             (cur'[t].reconfigured /\ ~cur[t].reconfigured) =>
                /\ t = "stt"
                /\ pc["main"] = "recv"
                /\ pc["stt"] \in PipelinePcs]_vars

\* a run of the receive loop is executing in a session whose client may
\* still send a command, and the listener's call waits for the lock
C35_Witness ==
    /\ pc["main"] \in PipelinePcs
    /\ is_active
    /\ nmsgs < MaxMsgs
    /\ pc["stt"] = "lock"

\* C36: the lock is held exactly while a run is executing, whether the last
\* run ended normally, with an exception or by the cancellation of the
\* listener; a held lock becomes free again, and a call that waits for the
\* lock does not wait forever.
C36_LockFreeWithoutRun ==
    /\ [](conversation_lock.locked <=> \E t \in Tasks : InPipeline(t))
    /\ [](\A i \in 1..Len(conversation_lock.waiters) :
             pc[conversation_lock.waiters[i].task] = "lock")
    /\ (conversation_lock.locked ~> ~conversation_lock.locked)
    /\ \A t \in Tasks : (pc[t] = "lock") ~> (pc[t] # "lock")

\* the run of a text command has met an exception and is about to return
\* while the listener's call waits for the lock
C36_Witness ==
    /\ pc["main"] = "p_error"
    /\ pc["stt"] = "lock"
    /\ conversation_lock.locked
    /\ \E i \in 1..Len(conversation_lock.waiters) :
          /\ conversation_lock.waiters[i].task = "stt"
          /\ conversation_lock.waiters[i].state = "pending"

\* C37 as claimed: when the session is active, the buffer holds text that
\* is not blank and an utterance boundary is in the queue, the listener
\* comes to start a run (unless the client ends the session first).
C37_BoundaryStartsRun ==
    (/\ is_active
     /\ Strip(accumulated_text) # <<>>
     /\ \E i \in 1..Len(transcript_queue) :
           transcript_queue[i].type = "utterance_end")
    ~> (InPipeline("stt") \/ ~is_active)

====
